---------------------------- MODULE Spec2Model ----------------------------
(***************************************************************************)
(* Azure DevOps Sprint Manager backend: the sprint data loader, the work   *)
(* item manager, the board manager, the AI integration, the MCP relay      *)
(* client, the REST router and the JSON-RPC tool server on stdin / stdout, *)
(* modelled as one request-at-a-time state machine.  Every await of an     *)
(* outbound HTTP call is a position (pc); the remote end answers           *)
(* nondeterministically with a success body or a failure.  The stdin loop  *)
(* of the tool server is modelled a second time with its 'data' callbacks  *)
(* running side by side, each waiting for the tool call of one line.       *)
(*                                                                         *)
(* Strings that are only compared are TLA+ strings.  Texts that are built  *)
(* or searched (error messages, the model reply) are sequences of parts.   *)
(* An optional field of a JavaScript object is a key that may be absent    *)
(* from the DOMAIN of the record.  Date.now() timestamps are left out of   *)
(* the envelopes: nothing in the program reads them back.                  *)
(***************************************************************************)
EXTENDS Integers, Sequences, FiniteSets, TLC

VARIABLES
    config,     \* config.mcp, read once at startup
    mcpClient,  \* mcpserver.ts: the relay client handle, "null" or "client"
    front,      \* who called the operation: "direct", the REST route, "tools/call"
    op,         \* the operation (exported function) being executed
    args,       \* its arguments / the request's inputs
    pc,         \* position: "idle", an await point, or "done"
    locals,     \* local variables of the operation that outlive an await
    calls,      \* outbound HTTP calls issued for this request, in order
    replies,    \* what the remote ends answered to them, in order
    outcome,    \* how the operation ended: return value or thrown Error
    http,       \* responses written by the REST route for this request
    rpc,        \* mcp/index.ts: the JSON-RPC request line being handled
    stdout,     \* mcp/index.ts: the JSON-RPC messages written to stdout
    stream,     \* mcp/index.ts: the characters the client sends on stdin
    read,       \* how many of them the 'data' events have delivered
    buffer,     \* main's `buffer`: the text after the last newline read
    handlers,   \* the 'data' callbacks waiting in `await handleRequest(request)`
    exited      \* process.exit has been called

\* the state of main's stdin loop
stdinVars == <<stream, read, buffer, handlers, exited>>

vars ==
    <<config, mcpClient, front, op, args, pc, locals, calls, replies, outcome, http,
      rpc, stdout, stdinVars>>

----------------------------------------------------------------------------
(* Bounds of the model *)

MaxItems == 2
MaxSprints == 3
MaxRefs == 3
MaxQueryIds == 202
MaxReplyLen == 5

----------------------------------------------------------------------------
(* Generic helpers *)

SeqsUpTo(S, n) == UNION {[1..k -> S] : k \in 0..n}

Has(r, f) == f \in DOMAIN r

EmptyObject == <<>>

Min(S) == CHOOSE x \in S : \A y \in S : x <= y

Max(S) == CHOOSE x \in S : \A y \in S : x >= y

\* an array built element by element: the elements are computed when the array
\* is built, not when it is read
ArrayOf(f) == SubSeq(f, 1, Len(f))

NoOutcome == [kind |-> "none"]

\* no JSON-RPC request is being handled
NoRequest == [method |-> "none"]

Return(v) == [kind |-> "return", value |-> v]

\* `throw new Error(msg)`: msg is a sequence of text parts
Throw(msg) == [kind |-> "throw", message |-> msg]

Returned == outcome.kind = "return"

Threw == outcome.kind = "throw"

----------------------------------------------------------------------------
(* types: WorkItem, Sprint *)

StateField == "System.State"

RemainingField == "Microsoft.VSTS.Scheduling.RemainingWork"

CompletedField == "Microsoft.VSTS.Scheduling.CompletedWork"

\* lifecycle states; "New" stands for every state outside the two counted sets
States == {"New", "Active", "In Progress", "Done", "Closed"}

\* work-hour values a field can hold when it is present
Hours == {0, 5}

Optional(f, S) == {EmptyObject} \cup {f :> v : v \in S}

FieldBags ==
    {(StateField :> s) @@ r @@ c :
        s \in States, r \in Optional(RemainingField, Hours),
        c \in Optional(CompletedField, Hours)}

TimeFrames == {"past", "current", "future"}

SprintOf(i, tf) ==
    [id |-> "s" \o ToString(i), name |-> "Sprint " \o ToString(i),
     attributes |-> [timeFrame |-> tf]]

----------------------------------------------------------------------------
(* sprintdataloader.ts: calculateSprintMetrics *)

\* Array.prototype.reduce((sum, item) => sum + (item.fields[f] || 0), 0)
RECURSIVE ReduceHours(_, _, _)
ReduceHours(workItems, f, sum) ==
    IF workItems = <<>> THEN sum
    ELSE LET item == Head(workItems)
             v == IF Has(item.fields, f) /\ item.fields[f] # 0
                  THEN item.fields[f] ELSE 0
         IN ReduceHours(Tail(workItems), f, sum + v)

IsCompleted(item) ==
    item.fields[StateField] = "Done" \/ item.fields[StateField] = "Closed"

\* counts a finished item as in progress too
IsInProgressSlip(item) == item.fields[StateField] \in {"Active", "In Progress", "Done"}

IsInProgress(item) ==
    item.fields[StateField] = "Active" \/ item.fields[StateField] = "In Progress"

\* a slip a maintainer could make: "Closed" forgotten, the two sums swapped
calculateSprintMetricsSlip(sprint, workItems) ==
    LET completed == SelectSeq(workItems, LAMBDA it : it.fields[StateField] = "Done")
        inProgress == SelectSeq(workItems, IsInProgress)
        totalRemaining == ReduceHours(workItems, CompletedField, 0)
        totalCompleted == ReduceHours(workItems, RemainingField, 0)
    IN [sprintId |-> sprint.id,
        sprintName |-> sprint.name,
        totalWorkItems |-> Len(workItems),
        completedWorkItems |-> Len(completed),
        inProgressWorkItems |-> Len(inProgress),
        remainingWork |-> totalRemaining,
        completedWork |-> totalCompleted,
        velocity |-> totalCompleted]

calculateSprintMetrics(sprint, workItems) ==
    LET completed == SelectSeq(workItems, IsCompleted)
        inProgress == SelectSeq(workItems, IsInProgress)
        totalRemaining == ReduceHours(workItems, RemainingField, 0)
        totalCompleted == ReduceHours(workItems, CompletedField, 0)
    IN [sprintId |-> sprint.id,
        sprintName |-> sprint.name,
        totalWorkItems |-> Len(workItems),
        completedWorkItems |-> Len(completed),
        inProgressWorkItems |-> Len(inProgress),
        remainingWork |-> totalRemaining,
        completedWork |-> totalCompleted,
        velocity |-> totalCompleted]

\* A direct call of the pure function on drawn inputs.
InitMetrics ==
    /\ config = [enabled |-> FALSE]
    /\ mcpClient = "null"
    /\ front = "direct"
    /\ op = "calculateSprintMetrics"
    /\ \E tf \in TimeFrames, its \in SeqsUpTo(FieldBags, MaxItems) :
          args = [sprint |-> SprintOf(1, tf),
                  workItems |-> ArrayOf([i \in 1..Len(its) |-> [id |-> i, fields |-> its[i]]])]
    /\ pc = "call"
    /\ locals = EmptyObject
    /\ calls = <<>>
    /\ replies = <<>>
    /\ outcome = NoOutcome
    /\ rpc = NoRequest
    /\ stdout = <<>>
    /\ stream = <<>> /\ read = 0 /\ buffer = <<>> /\ handlers = <<>> /\ exited = FALSE
    /\ http = <<>>

CalculateSprintMetricsCall ==
    /\ op = "calculateSprintMetrics"
    /\ pc = "call"
    /\ outcome' = Return(calculateSprintMetrics(args.sprint, args.workItems))
    /\ pc' = "done"
    /\ UNCHANGED <<stdinVars, config, mcpClient, rpc, front, op, args, locals, calls, replies, http, stdout>>

NextMetrics == CalculateSprintMetricsCall

SpecMetrics == InitMetrics /\ [][NextMetrics]_vars

\* Independent counting and summing, for stating C1.
CountWhere(workItems, S) ==
    Cardinality({i \in DOMAIN workItems : workItems[i].fields[StateField] \in S})

HoursAt(workItems, i, f) ==
    IF Has(workItems[i].fields, f) THEN workItems[i].fields[f] ELSE 0

RECURSIVE SumHours(_, _, _)
SumHours(workItems, f, I) ==
    IF I = {} THEN 0
    ELSE LET i == CHOOSE j \in I : TRUE
         IN HoursAt(workItems, i, f) + SumHours(workItems, f, I \ {i})

\* C1: calculateSprintMetrics, for every list of work items (the empty list and
\* items without work-hour fields included), returns totalWorkItems = the list
\* length, completedWorkItems = the number of items in state Done or Closed,
\* inProgressWorkItems = the number in state Active or In Progress,
\* remainingWork / completedWork = the sums of the hour fields with a missing
\* field counted as 0, and velocity = completedWork.
C1_MetricsAreCountsAndSums ==
    (op = "calculateSprintMetrics" /\ pc = "done") =>
        /\ Returned
        /\ LET m == outcome.value
               w == args.workItems
           IN /\ m.totalWorkItems = Len(w)
              /\ m.completedWorkItems = CountWhere(w, {"Done", "Closed"})
              /\ m.inProgressWorkItems = CountWhere(w, {"Active", "In Progress"})
              /\ m.remainingWork = SumHours(w, RemainingField, DOMAIN w)
              /\ m.completedWork = SumHours(w, CompletedField, DOMAIN w)
              /\ m.velocity = m.completedWork
              /\ m.sprintId = args.sprint.id

\* the spec's example shape: a Done item without hour fields next to an
\* Active item that has only remaining work
C1_Witness ==
    /\ op = "calculateSprintMetrics" /\ pc = "done"
    /\ Len(args.workItems) = 2
    /\ args.workItems[1].fields = (StateField :> "Done")
    /\ args.workItems[2].fields = (StateField :> "Active") @@ (RemainingField :> 5)
    /\ outcome.value.completedWorkItems = 1
    /\ outcome.value.inProgressWorkItems = 1
    /\ outcome.value.remainingWork = 5
    /\ outcome.value.completedWork = 0

\* C30: in every result of calculateSprintMetrics no work item is counted
\* both as completed and as in progress, completedWorkItems +
\* inProgressWorkItems is at most totalWorkItems, and the three counts are
\* not negative.
C30_CountsAreDisjoint ==
    (op = "calculateSprintMetrics" /\ pc = "done") =>
        LET m == outcome.value
            w == args.workItems
        IN /\ \A i \in DOMAIN w : ~(IsCompleted(w[i]) /\ IsInProgress(w[i]))
           /\ m.completedWorkItems + m.inProgressWorkItems <= m.totalWorkItems
           /\ m.totalWorkItems >= 0
           /\ m.completedWorkItems >= 0
           /\ m.inProgressWorkItems >= 0

\* every item is counted once: a Closed one and an In Progress one
C30_Witness ==
    /\ op = "calculateSprintMetrics" /\ pc = "done"
    /\ Len(args.workItems) = 2
    /\ args.workItems[1].fields[StateField] = "Closed"
    /\ args.workItems[2].fields[StateField] = "In Progress"
    /\ outcome.value.completedWorkItems + outcome.value.inProgressWorkItems = 2
    /\ outcome.value.totalWorkItems = 2

----------------------------------------------------------------------------
(* axios: how a failed call looks to the catch block *)

Statuses == {"401", "500"}

\* error bodies of the tracker: no usable field, its own message, a `value`
\* text, an empty message next to a value
ErrorBodies ==
    {EmptyObject,
     [message |-> <<"Access denied">>],
     [value |-> <<"Invalid query">>],
     [message |-> <<>>, value |-> <<"Invalid query">>]}

\* no response at all: error.response is undefined
NetworkError == [message |-> <<"Network Error">>]

\* axios rejects a non-2xx answer with this message and the response attached
HttpError(st, data) ==
    [message |-> <<"Request failed with status code ", st>>,
     response |-> [status |-> st, data |-> data]]

Failures == {NetworkError} \cup {HttpError(st, d) : st \in Statuses, d \in ErrorBodies}

Truthy(r, f) == Has(r, f) /\ r[f] # <<>>

\* leaves out the `|| error.response?.data?.value` alternative
errorMsgSlip(error) ==
    LET d == IF Has(error, "response") THEN error.response.data ELSE EmptyObject
    IN IF Truthy(d, "message") THEN d.message ELSE error.message

\* error.response?.data?.message || error.response?.data?.value || error.message
errorMsg(error) ==
    LET d == IF Has(error, "response") THEN error.response.data ELSE EmptyObject
    IN IF Truthy(d, "message") THEN d.message
       ELSE IF Truthy(d, "value") THEN d.value
       ELSE error.message

Ok(data) == [ok |-> TRUE, data |-> data]

Fail(error) == [ok |-> FALSE, error |-> error]

----------------------------------------------------------------------------
(* The request frame shared by every operation *)

InitIdle ==
    /\ front = "direct"
    /\ op = "none"
    /\ args = EmptyObject
    /\ pc = "idle"
    /\ locals = EmptyObject
    /\ calls = <<>>
    /\ replies = <<>>
    /\ outcome = NoOutcome
    /\ rpc = NoRequest
    /\ stdout = <<>>
    /\ stream = <<>> /\ read = 0 /\ buffer = <<>> /\ handlers = <<>> /\ exited = FALSE
    /\ http = <<>>

\* routes/index.ts createResponse: undefined data / error are absent keys
createResponse(success, data, error) == [success |-> success] @@ data @@ error

Defined(f, v) == f :> v

Undefined == EmptyObject

\* the data a route puts in its success envelope
RouteData(fr, value) ==
    CASE fr = "DELETE /workitems/:id" -> [deleted |-> TRUE]
      [] fr = "POST /ai/workitem-recommendations" -> [recommendations |-> value]
      [] OTHER -> value

\* answers 200 whatever happened, with the error text as data
RouteAnswerSlip(fr, out) ==
    IF out.kind = "return"
    THEN [status |-> 200,
          body |-> createResponse(TRUE, Defined("data", RouteData(fr, out.value)), Undefined)]
    ELSE [status |-> 200,
          body |-> createResponse(TRUE, Defined("data", out.message), Undefined)]

\* the try / catch every route is wrapped in
RouteAnswer(fr, out) ==
    IF out.kind = "return"
    THEN [status |-> 200,
          body |-> createResponse(TRUE, Defined("data", RouteData(fr, out.value)), Undefined)]
    ELSE [status |-> 500,
          body |-> createResponse(FALSE, Undefined, Defined("error", out.message))]

\* the operation ends with `out`; a REST route then writes its envelope
\* (under tools/call the operation returns into executeToolCall instead)
Finish(fr, out) ==
    /\ outcome' = out
    /\ pc' = IF fr = "tools/call" THEN "handler" ELSE "done"
    /\ http' = IF fr \in {"direct", "tools/call"} THEN http
               ELSE Append(http, RouteAnswer(fr, out))
    /\ UNCHANGED stdout

\* the operation goes on to (or stays at) an await
Await(label) ==
    /\ pc' = label
    /\ UNCHANGED <<outcome, http, stdout>>

\* the request is over; the process serves the next one
Reset ==
    /\ pc = "done"
    /\ front' = "direct"
    /\ op' = "none"
    /\ args' = EmptyObject
    /\ pc' = "idle"
    /\ locals' = EmptyObject
    /\ calls' = <<>>
    /\ replies' = <<>>
    /\ outcome' = NoOutcome
    /\ http' = <<>>
    /\ rpc' = NoRequest
    /\ stdout' = <<>>
    /\ UNCHANGED <<stdinVars, config, mcpClient>>

----------------------------------------------------------------------------
(* sprintdataloader.ts: getSprints, getSprintWorkItems, getCurrentSprintMetrics *)

Null == [null |-> TRUE]

\* Array.prototype.join(',') on numbers
Join(ids) ==
    ArrayOf([k \in 1..(IF ids = <<>> THEN 0 ELSE 2 * Len(ids) - 1) |->
                IF k % 2 = 1 THEN ToString(ids[(k + 1) \div 2]) ELSE ","])

SprintsCall ==
    [client |-> "azure", verb |-> "GET", url |-> <<"/work/teamsettings/iterations">>]

RefsCall(sprintId) ==
    [client |-> "azure", verb |-> "GET",
     url |-> <<"/work/teamsettings/iterations/", sprintId, "/workitems">>]

DetailsCall(ids) ==
    [client |-> "azure", verb |-> "GET", url |-> <<"/wit/workitems">>, ids |-> Join(ids)]

\* picks the last current sprint instead of the first
FindCurrentSlip(sprints) ==
    LET I == {i \in DOMAIN sprints : sprints[i].attributes.timeFrame = "current"}
    IN IF I = {} THEN 0 ELSE Max(I)

\* sprints.find((s) => s.attributes.timeFrame === 'current'): index, 0 if none
FindCurrent(sprints) ==
    LET I == {i \in DOMAIN sprints : sprints[i].attributes.timeFrame = "current"}
    IN IF I = {} THEN 0 ELSE Min(I)

\* workItemRefs.filter((ref) => ref.target).map((ref) => ref.target.id)
HasTarget(ref) == Has(ref, "target")

TargetId(ref) == ref.target.id

\* keeps the references in place and reads an id from each
TargetIdsSlip(workItemRefs) ==
    ArrayOf([i \in DOMAIN workItemRefs |->
                IF HasTarget(workItemRefs[i]) THEN workItemRefs[i].target.id ELSE 0])

TargetIds(workItemRefs) ==
    LET withTarget == SelectSeq(workItemRefs, HasTarget)
    IN ArrayOf([i \in 1..Len(withTarget) |-> TargetId(withTarget[i])])

\* what the caller of getSprintWorkItems does with the list
AfterWorkItems(workItems) ==
    IF op = "getCurrentSprintMetrics"
    THEN Return(calculateSprintMetrics(locals.currentSprint, workItems))
    ELSE Return(workItems)

\* the tracker's iteration lists: sprint i of the list has id "s<i>"
SprintLists ==
    {ArrayOf([i \in 1..Len(tfs) |-> SprintOf(i, tfs[i])]) : tfs \in SeqsUpTo(TimeFrames, MaxSprints)}

SprintIds == {"s" \o ToString(i) : i \in 1..(MaxSprints + 1)}

\* iteration work-item links: with a target, or without one
Refs == {[rel |-> "x"]} \cup {[rel |-> "x", target |-> [id |-> n]] : n \in 1..3}

RefsBodies ==
    {EmptyObject} \cup {[workItemRelations |-> rs] : rs \in SeqsUpTo(Refs, MaxRefs)}

\* the tracker's items: id 1 is Done with 5 hours completed, id 2 is Active
\* with 5 hours remaining, every other id is New without hour fields
TrackerFields(id) ==
    CASE id = 1 -> (StateField :> "Done") @@ (CompletedField :> 5)
      [] id = 2 -> (StateField :> "Active") @@ (RemainingField :> 5)
      [] OTHER -> (StateField :> "New")

\* the ids of a comma-joined id list, as the tracker reads them
IdsOf(joined) ==
    ArrayOf([i \in 1..((Len(joined) + 1) \div 2) |->
                CHOOSE n \in 1..(MaxQueryIds + 1) : ToString(n) = joined[2 * i - 1]])

TrackerItems(joined) ==
    LET ids == IdsOf(joined)
    IN ArrayOf([i \in DOMAIN ids |-> [id |-> ids[i], fields |-> TrackerFields(ids[i])]])

\* entry of getSprints / getCurrentSprintMetrics: the iterations call
GetSprintsEnter(fr, o) ==
    /\ pc = "idle"
    /\ o \in {"getSprints", "getCurrentSprintMetrics"}
    /\ front' = fr /\ op' = o /\ args' = EmptyObject
    /\ locals' = EmptyObject
    /\ calls' = <<SprintsCall>>
    /\ replies' = <<>>
    /\ Await("awaitSprints")
    /\ UNCHANGED <<stdinVars, config, mcpClient>>

\* entry of getSprintWorkItems(sprintId): the references call
GetSprintWorkItemsEnter(fr, sprintId) ==
    /\ pc = "idle"
    /\ front' = fr /\ op' = "getSprintWorkItems" /\ args' = [sprintId |-> sprintId]
    /\ locals' = [sprintId |-> sprintId]
    /\ calls' = <<RefsCall(sprintId)>>
    /\ replies' = <<>>
    /\ Await("awaitRefs")
    /\ UNCHANGED <<stdinVars, config, mcpClient>>

\* the iterations call settles, with one of `lists` or a failure
SprintsResponseOver(lists) ==
    /\ pc = "awaitSprints"
    /\ \E r \in {Ok([value |-> l]) : l \in lists} \cup {Fail(e) : e \in Failures} :
        /\ replies' = Append(replies, r)
        /\ IF ~r.ok
           THEN /\ Finish(front, Throw(<<"Failed to fetch sprints from Azure DevOps">>))
                /\ UNCHANGED <<locals, calls>>
           ELSE IF op = "getSprints"
           THEN /\ Finish(front, Return(r.data.value))
                /\ UNCHANGED <<locals, calls>>
           ELSE LET sprints == r.data.value
                    k == FindCurrent(sprints)
                IN IF k = 0
                   THEN /\ Finish(front, Return(Null))
                        /\ UNCHANGED <<locals, calls>>
                   ELSE /\ locals' = [currentSprint |-> sprints[k], sprintId |-> sprints[k].id]
                        /\ calls' = Append(calls, RefsCall(sprints[k].id))
                        /\ Await("awaitRefs")
    /\ UNCHANGED <<stdinVars, config, mcpClient, rpc, front, op, args>>

SprintsResponse == SprintsResponseOver(SprintLists)

WorkItemsError(error) ==
    Throw(<<"Failed to fetch work items for sprint ", locals.sprintId, ": ">> \o errorMsg(error))

\* the references call settles, with one of `bodies` or a failure
RefsResponseOver(bodies) ==
    /\ pc = "awaitRefs"
    /\ \E r \in {Ok(b) : b \in bodies} \cup {Fail(e) : e \in Failures} :
        /\ replies' = Append(replies, r)
        /\ IF ~r.ok
           THEN /\ Finish(front, WorkItemsError(r.error))
                /\ UNCHANGED <<locals, calls>>
           ELSE LET workItemRefs == IF Has(r.data, "workItemRelations")
                                    THEN r.data.workItemRelations ELSE <<>>
                    workItemIds == TargetIds(workItemRefs)
                IN IF Len(workItemIds) = 0
                   THEN /\ Finish(front, AfterWorkItems(<<>>))
                        /\ UNCHANGED <<locals, calls>>
                   ELSE /\ calls' = Append(calls, DetailsCall(workItemIds))
                        /\ UNCHANGED locals
                        /\ Await("awaitDetails")
    /\ UNCHANGED <<stdinVars, config, mcpClient, rpc, front, op, args>>

RefsResponse == RefsResponseOver(RefsBodies)

\* the bulk-detail call settles
DetailsResponse ==
    /\ pc = "awaitDetails"
    /\ \E r \in {Ok([value |-> TrackerItems(calls[Len(calls)].ids)]), Ok(EmptyObject)}
                  \cup {Fail(e) : e \in Failures} :
        /\ replies' = Append(replies, r)
        /\ IF ~r.ok
           THEN Finish(front, WorkItemsError(r.error))
           ELSE Finish(front, AfterWorkItems(IF Has(r.data, "value") THEN r.data.value ELSE <<>>))
    /\ UNCHANGED <<stdinVars, config, mcpClient, rpc, front, op, args, locals, calls>>

\* config/index.ts: MCP_ENABLED === 'true', MCP_SERVER_URL possibly unset
Configs ==
    {[enabled |-> e] @@ u : e \in BOOLEAN, u \in Optional("serverUrl", {"", "http://relay"})}

\* creates the client whenever the flag is on, with or without a URL
initializeMCPClientSlip(cfg) == IF cfg.enabled THEN "client" ELSE "null"

\* mcpserver.ts initializeMCPClient, run once at module load
initializeMCPClient(cfg) ==
    IF cfg.enabled /\ Has(cfg, "serverUrl") /\ cfg.serverUrl # "" THEN "client" ELSE "null"

InitProcess ==
    /\ config \in Configs
    /\ mcpClient = initializeMCPClient(config)
    /\ InitIdle

DirectSprintCall ==
    /\ \/ \E o \in {"getSprints", "getCurrentSprintMetrics"} : GetSprintsEnter("direct", o)
       \/ \E id \in SprintIds : GetSprintWorkItemsEnter("direct", id)
    /\ UNCHANGED rpc

NextSprint ==
    \/ DirectSprintCall
    \/ SprintsResponse
    \/ RefsResponse
    \/ DetailsResponse
    \/ Reset

SpecSprint == InitProcess /\ [][NextSprint]_vars

\* the sprint list the tracker returned to the current request
FetchedSprints == replies[1].data.value

CurrentIndexes ==
    {i \in DOMAIN FetchedSprints : FetchedSprints[i].attributes.timeFrame = "current"}

IsDetailsCall(c) == c.url = <<"/wit/workitems">>

IsRefsCall(c) == Len(c.url) = 3 /\ c.url[3] = "/workitems"

AllOk == \A i \in DOMAIN replies : replies[i].ok

\* C2: getCurrentSprintMetrics returns null, without raising and without
\* fetching any work items, whenever the fetched sprint list has no sprint with
\* time-frame "current"; when one or more sprints are current, the sprint it
\* goes on with is the first of them in the tracker's order: the references
\* call names that sprint, and once the work-item fetches have succeeded the
\* result is that sprint's metrics.
C2_NullOrFirstCurrent ==
    (op = "getCurrentSprintMetrics" /\ Len(replies) >= 1 /\ replies[1].ok) =>
        IF CurrentIndexes = {}
        THEN /\ pc = "done"
             /\ Returned
             /\ outcome.value = Null
             /\ calls = <<SprintsCall>>
        ELSE LET first == CHOOSE i \in CurrentIndexes :
                              \A j \in 1..(i - 1) : j \notin CurrentIndexes
             IN /\ Len(calls) >= 2
                /\ calls[2] = RefsCall(FetchedSprints[first].id)
                /\ (pc = "done" /\ AllOk) =>
                      /\ Returned
                      /\ outcome.value # Null
                      /\ outcome.value.sprintId = FetchedSprints[first].id
                      /\ outcome.value.sprintName = FetchedSprints[first].name
                /\ (pc = "done" /\ ~AllOk) => Threw

\* a non-empty sprint list without a current sprint: null, one call
C2_Witness ==
    /\ op = "getCurrentSprintMetrics" /\ pc = "done"
    /\ replies[1].ok /\ Len(FetchedSprints) = 2 /\ CurrentIndexes = {}
    /\ Returned /\ outcome.value = Null
    /\ Len(calls) = 1

\* the index of the references reply within the current request
RefsReplyAt == IF op = "getSprintWorkItems" THEN 1 ELSE 2

RECURSIVE TargetsInOrder(_)
TargetsInOrder(refs) ==
    IF refs = <<>> THEN <<>>
    ELSE (IF "target" \in DOMAIN Head(refs) THEN <<Head(refs).target.id>> ELSE <<>>)
             \o TargetsInOrder(Tail(refs))

FetchedRefs ==
    LET d == replies[RefsReplyAt].data
    IN IF "workItemRelations" \in DOMAIN d THEN d.workItemRelations ELSE <<>>

\* `joined` is the comma-separated list of exactly the numbers `ids`
IsCommaList(joined, ids) ==
    /\ Len(joined) = (IF ids = <<>> THEN 0 ELSE 2 * Len(ids) - 1)
    /\ \A i \in DOMAIN ids : joined[2 * i - 1] = ToString(ids[i])
    /\ \A i \in 1..(Len(ids) - 1) : joined[2 * i] = ","

\* C3: getSprintWorkItems discards every reference that has no target; when
\* no target id remains it returns an empty list without a bulk-detail call;
\* otherwise it issues exactly one bulk-detail call, whose id list is the
\* target ids of the remaining references in reference order.
C3_TargetsOnlyOneBulkCall ==
    (op \in {"getSprintWorkItems", "getCurrentSprintMetrics"}
        /\ Len(replies) >= RefsReplyAt /\ replies[RefsReplyAt].ok) =>
        LET ids == TargetsInOrder(FetchedRefs)
            bulk == {i \in DOMAIN calls : IsDetailsCall(calls[i])}
        IN IF ids = <<>>
           THEN /\ pc = "done"
                /\ Returned
                /\ op = "getSprintWorkItems" => outcome.value = <<>>
                /\ bulk = {}
           ELSE /\ bulk = {RefsReplyAt + 1}
                /\ IsCommaList(calls[RefsReplyAt + 1].ids, ids)

\* a reference without target between two with targets: the bulk call asks
\* for the two targets, in reference order
C3_Witness ==
    /\ op = "getSprintWorkItems" /\ pc = "awaitDetails"
    /\ replies[1].ok
    /\ Len(FetchedRefs) = 3
    /\ ~HasTarget(FetchedRefs[2])
    /\ HasTarget(FetchedRefs[1]) /\ FetchedRefs[1].target.id = 2
    /\ HasTarget(FetchedRefs[3]) /\ FetchedRefs[3].target.id = 1
    /\ calls[2].ids = <<"2", ",", "1">>

----------------------------------------------------------------------------
(* workitemmanager.ts: getAllTasks *)

\* the most ids one bulk fetch asks for
FetchLimit == 200

\* Array.prototype.slice(0, n) without the cut
SliceSlip(s, n) == s

\* Array.prototype.slice(0, n)
Slice(s, n) == IF Len(s) <= n THEN s ELSE SubSeq(s, 1, n)

WiqlCall ==
    [client |-> "azure", verb |-> "POST", url |-> <<"/wit/wiql">>,
     body |-> [query |-> "WorkItemType = 'Task' ORDER BY CreatedDate DESC"]]

\* what the query endpoint answers: no id list at all, or n task references,
\* newest first or oldest first
QueryBodies ==
    {EmptyObject}
        \cup {[workItems |-> ArrayOf([i \in 1..n |-> [id |-> i]])] : n \in 0..MaxQueryIds}
        \cup {[workItems |-> ArrayOf([i \in 1..n |-> [id |-> n + 1 - i]])] : n \in 2..MaxQueryIds}

GetAllTasksEnter(fr) ==
    /\ pc = "idle"
    /\ front' = fr /\ op' = "getAllTasks" /\ args' = EmptyObject
    /\ locals' = EmptyObject
    /\ calls' = <<WiqlCall>>
    /\ replies' = <<>>
    /\ Await("awaitQuery")
    /\ UNCHANGED <<stdinVars, config, mcpClient>>

\* answers a failed fetch with an empty list
TasksErrorSlip(error) == Return(<<>>)

TasksError(error) == Throw(<<"Failed to fetch all tasks: ">> \o errorMsg(error))

WorkItemId(wi) == wi.id

\* the query call settles, with one of `bodies` or a failure
QueryResponseOver(bodies) ==
    /\ pc = "awaitQuery"
    /\ \E r \in {Ok(b) : b \in bodies} \cup {Fail(e) : e \in Failures} :
        /\ replies' = Append(replies, r)
        /\ IF ~r.ok
           THEN /\ Finish(front, TasksError(r.error))
                /\ UNCHANGED <<locals, calls>>
           ELSE LET workItemIds == IF Has(r.data, "workItems")
                                   THEN ArrayOf([i \in 1..Len(r.data.workItems) |->
                                                WorkItemId(r.data.workItems[i])])
                                   ELSE <<>>
                IN IF Len(workItemIds) = 0
                   THEN /\ Finish(front, Return(<<>>))
                        /\ UNCHANGED <<locals, calls>>
                   ELSE LET idsToFetch == Slice(workItemIds, FetchLimit)
                        IN /\ locals' = [idsToFetch |-> idsToFetch]
                           /\ calls' = Append(calls, DetailsCall(idsToFetch))
                           /\ Await("awaitBulk")
    /\ UNCHANGED <<stdinVars, config, mcpClient, rpc, front, op, args>>

QueryResponse == QueryResponseOver(QueryBodies)

\* the bulk fetch settles: the tracker answers with the items asked for, or
\* with a body that has no `value`
BulkResponse ==
    /\ pc = "awaitBulk"
    /\ \E r \in {Ok([value |-> ArrayOf([i \in DOMAIN locals.idsToFetch |->
                                  [id |-> locals.idsToFetch[i],
                                   fields |-> TrackerFields(locals.idsToFetch[i])]])]),
                 Ok(EmptyObject)}
                  \cup {Fail(e) : e \in Failures} :
        /\ replies' = Append(replies, r)
        /\ IF ~r.ok
           THEN Finish(front, TasksError(r.error))
           ELSE Finish(front, Return(IF Has(r.data, "value") THEN r.data.value ELSE <<>>))
    /\ UNCHANGED <<stdinVars, config, mcpClient, rpc, front, op, args, locals, calls>>

DirectTasksCall == GetAllTasksEnter("direct") /\ UNCHANGED rpc

NextTasks ==
    \/ DirectTasksCall
    \/ QueryResponse
    \/ BulkResponse
    \/ Reset

SpecTasks == InitProcess /\ [][NextTasks]_vars

\* the ids the query step yielded, in the order it returned them
QueriedIds ==
    LET d == replies[1].data
    IN IF "workItems" \in DOMAIN d
       THEN [i \in DOMAIN d.workItems |-> d.workItems[i].id] ELSE <<>>

FirstIds(ids, n) == [i \in 1..(IF Len(ids) < n THEN Len(ids) ELSE n) |-> ids[i]]

\* C4: getAllTasks returns an empty list without a bulk-fetch call when the
\* query step yields zero ids or no id list at all; otherwise it issues
\* exactly one bulk-fetch call, for at most 200 ids: the first 200 in the
\* order the query returned them.
C4_AtMost200InOneBulkCall ==
    (op = "getAllTasks" /\ Len(replies) >= 1 /\ replies[1].ok) =>
        LET bulk == {i \in DOMAIN calls : IsDetailsCall(calls[i])}
        IN IF QueriedIds = <<>>
           THEN /\ pc = "done"
                /\ Returned
                /\ outcome.value = <<>>
                /\ calls = <<WiqlCall>>
           ELSE /\ bulk = {2}
                /\ Len(calls) = 2
                /\ IsCommaList(calls[2].ids, FirstIds(QueriedIds, 200))

\* the query returned more than 200 ids, newest first: 200 are asked for
C4_Witness ==
    /\ op = "getAllTasks" /\ pc = "done" /\ Returned
    /\ replies[1].ok
    /\ Len(QueriedIds) = 202 /\ QueriedIds[1] = 202
    /\ Len(calls) = 2
    /\ Len(calls[2].ids) = 399
    /\ calls[2].ids[1] = "202" /\ calls[2].ids[399] = "3"
    /\ Len(outcome.value) = 200

----------------------------------------------------------------------------
(* integration.ts (in workitemmanager.ts, lines 230-380): the AI client *)

TitleField == "System.Title"

TypeField == "System.WorkItemType"

DescriptionField == "System.Description"

\* A model reply is a sequence of characters over this alphabet: the two
\* braces, a comma, one well-formed member `"riskLevel":"low"`, and a
\* character of plain text.
Member == "\"riskLevel\":\"low\""

Chars == {"{", "}", ",", Member, "x"}

ReplyTexts == SeqsUpTo(Chars, MaxReplyLen)

\* JSON.parse on such a text: an object is `{`, members separated by commas,
\* `}`; anything else is a SyntaxError.  The value keeps the keys, not the text.
JSONParse(text) ==
    LET n == Len(text)
        wellFormed ==
            /\ n >= 2
            /\ text[1] = "{"
            /\ text[n] = "}"
            /\ \/ n = 2
               \/ /\ n % 2 = 1
                  /\ \A k \in 2..(n - 1) :
                        text[k] = (IF k % 2 = 0 THEN Member ELSE ",")
    IN IF wellFormed
       THEN [ok |-> TRUE, value |-> IF n = 2 THEN EmptyObject ELSE [riskLevel |-> "low"]]
       ELSE [ok |-> FALSE]

NoMatch == [found |-> FALSE]

\* the pattern without its closing brace: /\{[\s\S]*/
MatchBracesSlip(text) ==
    LET opens == {i \in DOMAIN text : text[i] = "{"}
    IN IF opens = {} THEN NoMatch
       ELSE [found |-> TRUE, text |-> SubSeq(text, Min(opens), Len(text))]

\* aiResponse.match(/\{[\s\S]*\}/): leftmost start, then the longest match,
\* so from the first `{` that has a `}` after it to the last `}`
MatchBraces(text) ==
    LET starts == {i \in DOMAIN text :
                      text[i] = "{" /\ \E j \in (i + 1)..Len(text) : text[j] = "}"}
    IN IF starts = {} THEN NoMatch
       ELSE LET i == Min(starts)
                j == Max({k \in (i + 1)..Len(text) : text[k] = "}"})
            IN [found |-> TRUE, text |-> SubSeq(text, i, j)]

Fallback(aiResponse) ==
    [impact |-> aiResponse,
     recommendations |-> <<"Review AI response for detailed recommendations">>,
     riskLevel |-> "medium",
     releaseReadiness |-> FALSE,
     guidelines |-> <<"See full AI analysis for guidelines">>]

\* treats a text that does not parse like a reply without JSON
parseAIResponseSlip(aiResponse) ==
    LET jsonMatch == MatchBraces(aiResponse)
        parsed == IF jsonMatch.found THEN JSONParse(jsonMatch.text) ELSE [ok |-> FALSE]
    IN IF parsed.ok THEN Return(parsed.value) ELSE Return(Fallback(aiResponse))

parseAIResponse(aiResponse) ==
    LET jsonMatch == MatchBraces(aiResponse)
    IN IF jsonMatch.found
       THEN LET parsed == JSONParse(jsonMatch.text)
            IN IF parsed.ok THEN Return(parsed.value)
               ELSE Throw(<<"Failed to parse AI analysis response">>)
       ELSE Return(Fallback(aiResponse))

\* generateAnalysisPrompt: the metrics and a title / state / type summary of
\* each item; reading a property of undefined is a TypeError
Summary(item) ==
    [f \in DOMAIN item.fields \cap {TitleField, StateField, TypeField} |-> item.fields[f]]

CanRenderPrompt(request) == Has(request, "sprintData") /\ Has(request, "workItems")

generateAnalysisPrompt(request) ==
    [sprintData |-> request.sprintData,
     workItems |-> ArrayOf([i \in 1..Len(request.workItems) |->
                               Summary(request.workItems[i])])]

ChatCall(messages, maxTokens) ==
    [client |-> "openRouter", verb |-> "POST", url |-> <<"/chat/completions">>,
     body |-> [messages |-> messages, temperature |-> "0.7", max_tokens |-> maxTokens]]

AnalysisCall(prompt) ==
    ChatCall(<<[role |-> "system", content |-> "You are an expert Agile coach and sprint analyst."],
               [role |-> "user", content |-> prompt]>>, 1000)

\* hands out the fallback analysis instead of raising
AnalysisErrorSlip == Return(Fallback(<<>>))

AnalysisError == Throw(<<"Failed to get AI analysis">>)

\* response.data.choices[0]?.message?.content || ''
FirstContent(data) ==
    IF Len(data.choices) >= 1
          /\ Has(data.choices[1], "message")
          /\ Has(data.choices[1].message, "content")
    THEN data.choices[1].message.content
    ELSE <<>>

\* entry of analyzeSprintWithAI(request)
AnalyzeSprintEnter(fr, request) ==
    /\ pc = "idle"
    /\ front' = fr /\ op' = "analyzeSprintWithAI" /\ args' = request
    /\ locals' = EmptyObject
    /\ replies' = <<>>
    /\ IF CanRenderPrompt(request)
       THEN /\ calls' = <<AnalysisCall(generateAnalysisPrompt(request))>>
            /\ Await("awaitAI")
       ELSE /\ calls' = <<>>
            /\ Finish(fr, AnalysisError)
    /\ UNCHANGED <<stdinVars, config, mcpClient>>

\* completion bodies: no `choices` at all, no choice, a choice without a
\* message, a choice with a reply text
ChatBodies(texts) ==
    {EmptyObject, [choices |-> <<>>], [choices |-> <<EmptyObject>>]}
        \cup {[choices |-> <<[message |-> [content |-> t]]>>] : t \in texts}

\* the chat completion of analyzeSprintWithAI settles
AnalysisResponseOver(texts) ==
    /\ pc = "awaitAI"
    /\ \E r \in {Ok(b) : b \in ChatBodies(texts)} \cup {Fail(e) : e \in Failures} :
        /\ replies' = Append(replies, r)
        /\ IF ~r.ok \/ ~Has(r.data, "choices")
           THEN Finish(front, AnalysisError)
           ELSE LET parsed == parseAIResponse(FirstContent(r.data))
                IN Finish(front, IF parsed.kind = "throw" THEN AnalysisError ELSE parsed)
    /\ UNCHANGED <<stdinVars, config, mcpClient, rpc, front, op, args, locals, calls>>

AnalysisResponse == AnalysisResponseOver(ReplyTexts)

SampleItems ==
    <<[id |-> 1, fields |-> TrackerFields(1) @@ (TitleField :> "Fix login") @@ (TypeField :> "Bug")],
      [id |-> 2, fields |-> TrackerFields(2)]>>

AIRequests ==
    {[sprintData |-> calculateSprintMetrics(SprintOf(1, "current"), w), workItems |-> w] :
        w \in {<<>>, SampleItems}}
        \cup {[sprintData |-> calculateSprintMetrics(SprintOf(1, "current"), <<>>)]}

DirectAnalyzeCall ==
    /\ \E request \in AIRequests : AnalyzeSprintEnter("direct", request)
    /\ UNCHANGED rpc

NextAI ==
    \/ DirectAnalyzeCall
    \/ AnalysisResponse
    \/ Reset

\* the relay plays no part here: the process runs with it switched off
InitAI ==
    /\ config = [enabled |-> FALSE]
    /\ mcpClient = initializeMCPClient(config)
    /\ InitIdle

SpecAI == InitAI /\ [][NextAI]_vars

\* the reply text the model gave to the current analysis, once it has one
HasReply ==
    /\ op = "analyzeSprintWithAI" /\ pc = "done"
    /\ Len(replies) = 1 /\ replies[1].ok
    /\ "choices" \in DOMAIN replies[1].data

ReplyText ==
    LET ch == replies[1].data.choices
    IN IF ch # <<>> /\ "message" \in DOMAIN ch[1] THEN ch[1].message.content ELSE <<>>

IsObjectText(t) == JSONParse(t).ok

HasBracePair(t) == \E i, j \in DOMAIN t : i < j /\ t[i] = "{" /\ t[j] = "}"

ObjectSpans(t) == {<<i, j>> \in (DOMAIN t) \X (DOMAIN t) : i < j /\ IsObjectText(SubSeq(t, i, j))}

FirstObject(t) ==
    LET first == CHOOSE p \in ObjectSpans(t) :
                    \A q \in ObjectSpans(t) : p[1] < q[1] \/ (p[1] = q[1] /\ p[2] <= q[2])
    IN SubSeq(t, first[1], first[2])

\* C5: when the reply has a JSON-shaped substring that is present but cannot
\* be parsed (it opens a brace, as `{not valid json` does, and no part of it
\* is a well-formed object), sprint analysis fails with an error instead of
\* returning the fallback result.
C5_MalformedJsonIsFatal ==
    (HasReply /\ (\E i \in DOMAIN ReplyText : ReplyText[i] = "{")
        /\ ObjectSpans(ReplyText) = {}) => Threw

\* the text from the first opening brace to the last closing brace
BraceSpan(t) ==
    SubSeq(t, Min({i \in DOMAIN t : t[i] = "{"}), Max({j \in DOMAIN t : t[j] = "}"}))

\* C5 (amended): when the reply has an opening brace with a closing brace
\* somewhere after it and the text from the first opening brace to the last
\* closing brace is not valid JSON (as in `{not valid json}`), sprint analysis
\* fails with the error "Failed to get AI analysis" instead of returning the
\* fallback result.
C5_UnparsableBraceSpanIsFatal ==
    (HasReply /\ HasBracePair(ReplyText) /\ ~IsObjectText(BraceSpan(ReplyText))) =>
        /\ Threw
        /\ outcome.message = <<"Failed to get AI analysis">>

\* the reply `{x}`: braces around text that is no JSON
C5_Witness ==
    /\ HasReply
    /\ ReplyText = <<"{", "x", "}">>
    /\ Threw

\* C6: for every reply in which no JSON substring is found (no opening brace
\* with a closing brace after it; the empty reply included), parsing does not
\* throw and the result is the fallback: impact is the raw reply text,
\* riskLevel "medium", releaseReadiness false, and the two fixed placeholder
\* lists.
C6_FallbackWithoutJson ==
    (HasReply /\ ~HasBracePair(ReplyText)) =>
        /\ Returned
        /\ DOMAIN outcome.value =
              {"impact", "recommendations", "riskLevel", "releaseReadiness", "guidelines"}
        /\ outcome.value.impact = ReplyText
        /\ outcome.value.riskLevel = "medium"
        /\ outcome.value.releaseReadiness = FALSE
        /\ outcome.value.recommendations = <<"Review AI response for detailed recommendations">>
        /\ outcome.value.guidelines = <<"See full AI analysis for guidelines">>

\* a reply of plain text with a stray closing brace before an opening one
C6_Witness ==
    /\ HasReply
    /\ ReplyText = <<"x", "}", "x", "{">>
    /\ Returned
    /\ outcome.value.impact = <<"x", "}", "x", "{">>
    /\ outcome.value.riskLevel = "medium"

\* C7: for every reply that contains at least one well-formed brace-delimited
\* JSON object, the analysis result is the parse of the first such object,
\* whatever text follows it.
C7_FirstObjectIsParsed ==
    (HasReply /\ ObjectSpans(ReplyText) # {}) =>
        /\ Returned
        /\ outcome.value = JSONParse(FirstObject(ReplyText)).value

----------------------------------------------------------------------------
(* mcpserver.ts (part_000, lines 1-114): the relay *)

\* `if (!mcpClient)` always taken for "client present"
ClientMissingSlip == FALSE

\* `if (!mcpClient)` at the head of sendMCPCommand, queryMCP and getMCPStatus
ClientMissing == mcpClient = "null"

NotConfigured == Throw(<<"MCP is not enabled or configured">>)

\* { command, ...payload }: a key of the payload replaces the one before it;
\* spreading undefined adds nothing
CommandPayload(a) ==
    (IF Has(a, "payload") THEN a.payload ELSE EmptyObject)
        @@ (IF Has(a, "command") THEN [command |-> a.command] ELSE EmptyObject)

QueryPayload(a) == IF Has(a, "query") THEN [query |-> a.query] ELSE EmptyObject

\* marks every envelope as a query
RelayCallSlip(o, a) ==
    IF o = "getMCPStatus" THEN [client |-> "mcp", verb |-> "GET", url |-> <<"/status">>]
    ELSE [client |-> "mcp", verb |-> "POST",
          url |-> IF o = "sendMCPCommand" THEN <<"/command">> ELSE <<"/query">>,
          body |-> [type |-> "query",
                    payload |-> IF o = "sendMCPCommand" THEN CommandPayload(a)
                                ELSE QueryPayload(a)]]

RelayCall(o, a) ==
    CASE o = "sendMCPCommand" ->
            [client |-> "mcp", verb |-> "POST", url |-> <<"/command">>,
             body |-> [type |-> "command", payload |-> CommandPayload(a)]]
      [] o = "queryMCP" ->
            [client |-> "mcp", verb |-> "POST", url |-> <<"/query">>,
             body |-> [type |-> "query", payload |-> QueryPayload(a)]]
      [] o = "getMCPStatus" ->
            [client |-> "mcp", verb |-> "GET", url |-> <<"/status">>]

RelayOps == {"sendMCPCommand", "queryMCP", "getMCPStatus"}

\* entry of the three relay operations
RelayEnter(fr, o, a) ==
    /\ pc = "idle"
    /\ o \in RelayOps
    /\ front' = fr /\ op' = o /\ args' = a
    /\ locals' = EmptyObject
    /\ replies' = <<>>
    /\ IF ClientMissing
       THEN /\ calls' = <<>>
            /\ Finish(fr, IF o = "getMCPStatus" THEN Return([online |-> FALSE]) ELSE NotConfigured)
       ELSE /\ calls' = <<RelayCall(o, a)>>
            /\ Await("awaitRelay")
    /\ UNCHANGED <<stdinVars, config, mcpClient>>

RelayBodies ==
    {EmptyObject, [version |-> "1.0"], [type |-> "response", payload |-> [done |-> TRUE]]}

\* the relay call settles
RelayResponse ==
    /\ pc = "awaitRelay"
    /\ \E r \in {Ok(b) : b \in RelayBodies} \cup {Fail(e) : e \in Failures} :
        /\ replies' = Append(replies, r)
        /\ Finish(front,
              CASE op = "sendMCPCommand" ->
                      IF r.ok THEN Return(r.data) ELSE Throw(<<"Failed to send MCP command">>)
                [] op = "queryMCP" ->
                      IF r.ok THEN Return(r.data) ELSE Throw(<<"Failed to query MCP server">>)
                [] op = "getMCPStatus" ->
                      IF r.ok
                      THEN Return([online |-> TRUE]
                                     @@ (IF Has(r.data, "version")
                                         THEN [version |-> r.data.version] ELSE EmptyObject))
                      ELSE Return([online |-> FALSE]))
    /\ UNCHANGED <<stdinVars, config, mcpClient, rpc, front, op, args, locals, calls>>

Payloads == {EmptyObject, [force |-> TRUE], [command |-> "shutdown"]}

CommandArgs ==
    {c @@ q : c \in Optional("command", {"sync", "status"}), q \in Optional("payload", Payloads)}

QueryArgs == Optional("query", {"sprints", ""})

DirectRelayCall ==
    /\ \/ \E a \in CommandArgs : Has(a, "command") /\ RelayEnter("direct", "sendMCPCommand", a)
       \/ \E a \in QueryArgs : Has(a, "query") /\ RelayEnter("direct", "queryMCP", a)
       \/ RelayEnter("direct", "getMCPStatus", EmptyObject)
    /\ UNCHANGED rpc

NextRelay ==
    \/ DirectRelayCall
    \/ RelayResponse
    \/ Reset

SpecRelay == InitProcess /\ [][NextRelay]_vars

\* C8: while the relay was never enabled, getStatus returns {online:false}
\* without raising, sendCommand and query each raise the not-configured
\* error, and none of the three issues an outbound call.
C8_DisabledRelayFailsFast ==
    (mcpClient = "null" /\ op \in RelayOps) =>
        /\ pc = "done"
        /\ calls = <<>>
        /\ replies = <<>>
        /\ op = "getMCPStatus" => (Returned /\ outcome.value = [online |-> FALSE])
        /\ op \in {"sendMCPCommand", "queryMCP"} =>
              (Threw /\ outcome.message = <<"MCP is not enabled or configured">>)

\* the feature flag is on but no URL is configured; a command was refused
C8_Witness ==
    /\ config.enabled /\ "serverUrl" \notin DOMAIN config
    /\ mcpClient = "null"
    /\ op = "sendMCPCommand" /\ pc = "done"
    /\ Threw /\ calls = <<>>

\* C21: the relay is enabled (the client handle exists) exactly when the
\* feature flag is on and a target URL is configured, as decided at startup,
\* and no sendCommand, query or getStatus call, whether it succeeds or fails,
\* changes the handle or the configuration afterwards.
C21_RelayStateFixedAtStartup ==
    /\ [](mcpClient = "client" <=>
            (config.enabled /\ Has(config, "serverUrl") /\ config.serverUrl # ""))
    /\ [][mcpClient' = mcpClient /\ config' = config]_vars

\* a command went out on the enabled relay and failed; the relay is still on
C21_Witness ==
    /\ mcpClient = "client"
    /\ op = "sendMCPCommand" /\ pc = "done"
    /\ Len(replies) = 1 /\ ~replies[1].ok
    /\ Threw

\* C22: on the enabled relay, sendCommand posts exactly one envelope with the
\* discriminator "command" and query exactly one with the discriminator
\* "query"; when the post fails the caller gets a fixed message, the same
\* whatever status or body the relay answered with, and no part of the
\* remote's error text is in it.
C22_RelayErrorsAreGeneric ==
    (mcpClient = "client" /\ op \in {"sendMCPCommand", "queryMCP"}) =>
        /\ Len(calls) = 1
        /\ calls[1].client = "mcp" /\ calls[1].verb = "POST"
        /\ calls[1].body.type = (IF op = "sendMCPCommand" THEN "command" ELSE "query")
        /\ (pc = "done" /\ ~replies[1].ok) =>
              /\ Threw
              /\ outcome.message = (IF op = "sendMCPCommand"
                                    THEN <<"Failed to send MCP command">>
                                    ELSE <<"Failed to query MCP server">>)
              /\ \A k \in DOMAIN errorMsg(replies[1].error), j \in DOMAIN outcome.message :
                    outcome.message[j] # errorMsg(replies[1].error)[k]

\* the relay refused a query with 401 and its own message; the caller sees
\* the generic text
C22_Witness ==
    /\ mcpClient = "client"
    /\ op = "queryMCP" /\ pc = "done"
    /\ replies = <<Fail(HttpError("401", [message |-> <<"Access denied">>]))>>
    /\ outcome = Throw(<<"Failed to query MCP server">>)

\* C29: for every command name and every payload, the envelope sendCommand
\* posts to the relay names the command it was called with: the command field
\* inside the envelope's payload equals the command argument, also when the
\* caller's payload has a field named command.
C29_EnvelopeNamesTheCommand ==
    (mcpClient = "client" /\ op = "sendMCPCommand" /\ Has(args, "command")) =>
        /\ Len(calls) = 1
        /\ Has(calls[1].body.payload, "command")
        /\ calls[1].body.payload.command = args.command

----------------------------------------------------------------------------
(* workitemmanager.ts: createWorkItem, updateWorkItem, deleteWorkItem, getWorkItem *)

\* a JavaScript value interpolated into a template string
Text(a, f) == IF Has(a, f) THEN a[f] ELSE "undefined"

\* `if (value)`: present and not the empty string
Provided(a, f) == Has(a, f) /\ a[f] # ""

\* encodeURIComponent on the type names used here
encodeURIComponent(t) == IF t = "User Story" THEN "User%20Story" ELSE t

AddOp(path, a, f) ==
    [op |-> "add", path |-> path] @@ (IF Has(a, f) THEN [value |-> a[f]] ELSE EmptyObject)

\* adds the description whenever the key is there, and the assignee before it
CreateOperationsSlip(a) ==
    <<AddOp("/fields/System.Title", a, "title")>>
        \o (IF Provided(a, "assignedTo")
            THEN <<AddOp("/fields/System.AssignedTo", a, "assignedTo")>> ELSE <<>>)
        \o (IF Has(a, "description")
            THEN <<AddOp("/fields/System.Description", a, "description")>> ELSE <<>>)

\* the patch document of createWorkItem
CreateOperations(a) ==
    <<AddOp("/fields/System.Title", a, "title")>>
        \o (IF Provided(a, "description")
            THEN <<AddOp("/fields/System.Description", a, "description")>> ELSE <<>>)
        \o (IF Provided(a, "assignedTo")
            THEN <<AddOp("/fields/System.AssignedTo", a, "assignedTo")>> ELSE <<>>)

\* Object.entries(updates).map(...): updates is an ordered list of
\* <<field, value>> entries
ReplaceOp(entry) == [op |-> "replace", path |-> "/fields/" \o entry[1], value |-> entry[2]]

\* walks the entries from the last to the first
UpdateOperationsSlip(updates) ==
    ArrayOf([i \in 1..Len(updates) |-> ReplaceOp(updates[Len(updates) + 1 - i])])

UpdateOperations(updates) == ArrayOf([i \in 1..Len(updates) |-> ReplaceOp(updates[i])])

WorkItemOps == {"createWorkItem", "updateWorkItem", "deleteWorkItem", "getWorkItem"}

WorkItemCall(o, a) ==
    CASE o = "createWorkItem" ->
            [client |-> "azure", verb |-> "POST",
             url |-> <<"/wit/workitems/$", encodeURIComponent(Text(a, "workItemType"))>>,
             body |-> CreateOperations(a)]
      [] o = "updateWorkItem" ->
            [client |-> "azure", verb |-> "PATCH",
             url |-> <<"/wit/workitems/", ToString(a.workItemId)>>,
             body |-> UpdateOperations(a.updates)]
      [] o = "deleteWorkItem" ->
            [client |-> "azure", verb |-> "DELETE",
             url |-> <<"/wit/workitems/", ToString(a.workItemId)>>]
      [] o = "getWorkItem" ->
            [client |-> "azure", verb |-> "GET",
             url |-> <<"/wit/workitems/", ToString(a.workItemId)>>]

\* the local context each catch block puts before the remote detail
ErrorPrefix(o, a) ==
    CASE o = "createWorkItem" -> <<"Failed to create ", Text(a, "workItemType"), ": ">>
      [] o = "updateWorkItem" -> <<"Failed to update work item ", ToString(a.workItemId), ": ">>
      [] o = "deleteWorkItem" -> <<"Failed to delete work item ", ToString(a.workItemId), ": ">>
      [] o = "getWorkItem" -> <<"Failed to fetch work item ", ToString(a.workItemId), ": ">>

WorkItemError(o, a, error) == Throw(ErrorPrefix(o, a) \o errorMsg(error))

\* Object.entries(undefined) inside the try block
EntriesTypeError == [message |-> <<"Cannot convert undefined or null to object">>]

\* entry of the four single-call work-item operations
WorkItemEnter(fr, o, a) ==
    /\ pc = "idle"
    /\ o \in WorkItemOps
    /\ front' = fr /\ op' = o /\ args' = a
    /\ locals' = EmptyObject
    /\ replies' = <<>>
    /\ IF o = "updateWorkItem" /\ ~Has(a, "updates")
       THEN /\ calls' = <<>>
            /\ Finish(fr, WorkItemError(o, a, EntriesTypeError))
       ELSE /\ calls' = <<WorkItemCall(o, a)>>
            /\ Await("awaitWorkItem")
    /\ UNCHANGED <<stdinVars, config, mcpClient>>

\* the item the tracker answers a create, update or get with
RemoteItem(o, a) ==
    [id |-> IF o = "createWorkItem" THEN 42 ELSE a.workItemId,
     rev |-> 1,
     fields |-> (StateField :> "New")
                  @@ (IF Has(a, "title") THEN (TitleField :> a.title) ELSE EmptyObject)]

\* the work-item call settles
WorkItemResponse ==
    /\ pc = "awaitWorkItem"
    /\ \E r \in {Ok(RemoteItem(op, args))} \cup {Fail(e) : e \in Failures} :
        /\ replies' = Append(replies, r)
        /\ IF ~r.ok
           THEN Finish(front, WorkItemError(op, args, r.error))
           ELSE Finish(front, Return(IF op = "deleteWorkItem" THEN TRUE ELSE r.data))
    /\ UNCHANGED <<stdinVars, config, mcpClient, rpc, front, op, args, locals, calls>>

----------------------------------------------------------------------------
(* integration.ts: getWorkItemRecommendations *)

RecommendationsError == Throw(<<"Failed to get AI recommendations">>)

\* the prompt reads workItem.fields[...]: a TypeError without a work item
RecommendationsPrompt(workItem) ==
    [title |-> Text(workItem.fields, TitleField),
     type |-> Text(workItem.fields, TypeField),
     state |-> Text(workItem.fields, StateField),
     description |-> IF Provided(workItem.fields, DescriptionField)
                     THEN workItem.fields[DescriptionField] ELSE "N/A"]

RecommendationsEnter(fr, a) ==
    /\ pc = "idle"
    /\ front' = fr /\ op' = "getWorkItemRecommendations" /\ args' = a
    /\ locals' = EmptyObject
    /\ replies' = <<>>
    /\ IF Has(a, "workItem") /\ Has(a.workItem, "fields")
       THEN /\ calls' = <<ChatCall(<<[role |-> "user",
                                       content |-> RecommendationsPrompt(a.workItem)]>>, 300)>>
            /\ Await("awaitRecommendations")
       ELSE /\ calls' = <<>>
            /\ Finish(fr, RecommendationsError)
    /\ UNCHANGED <<stdinVars, config, mcpClient>>

\* the chat completion of getWorkItemRecommendations settles
RecommendationsResponse ==
    /\ pc = "awaitRecommendations"
    /\ \E r \in {Ok(b) : b \in ChatBodies({<<"x">>, <<"x", "x">>})}
                  \cup {Fail(e) : e \in Failures} :
        /\ replies' = Append(replies, r)
        /\ IF ~r.ok \/ ~Has(r.data, "choices")
           THEN Finish(front, RecommendationsError)
           ELSE Finish(front, Return(IF FirstContent(r.data) # <<>> THEN FirstContent(r.data)
                                     ELSE <<"No recommendations available">>))
    /\ UNCHANGED <<stdinVars, config, mcpClient, rpc, front, op, args, locals, calls>>

----------------------------------------------------------------------------
(* routes/index.ts: the REST router *)

CreateBodies ==
    {t @@ ti @@ d @@ as :
        t \in Optional("workItemType", {"Task", "User Story"}),
        ti \in Optional("title", {"X", ""}),
        d \in Optional("description", {"details"}),
        as \in Optional("assignedTo", {"ann@example.org"})}

\* parseInt(req.params.id, 10)
ItemIds == {0, 7}

UpdateLists ==
    {<<>>,
     <<<<"System.State", "Done">>>>,
     <<<<"System.Title", "Y">>, <<"System.State", "Active">>>>}

UpdateBodies == Optional("updates", UpdateLists)

RecommendationBodies ==
    {EmptyObject, [workItem |-> EmptyObject], [workItem |-> SampleItems[1]],
     [workItem |-> SampleItems[2]]}

Routes ==
    {"GET /sprints", "GET /sprints/:sprintId/workitems", "GET /sprints/current/metrics",
     "POST /workitems", "GET /workitems/:id", "PATCH /workitems/:id", "DELETE /workitems/:id",
     "POST /ai/analyze-sprint", "POST /ai/workitem-recommendations",
     "GET /mcp/status", "POST /mcp/command", "POST /mcp/query"}

\* the operations the routes call
RouteOperations ==
    {"getSprints", "getSprintWorkItems", "getCurrentSprintMetrics",
     "createWorkItem", "getWorkItem", "updateWorkItem", "deleteWorkItem",
     "analyzeSprintWithAI", "getWorkItemRecommendations",
     "getMCPStatus", "sendMCPCommand", "queryMCP"}

\* a request arrives at a route; the handler reads its inputs and calls the
\* operation
RestRequest ==
    /\ \/ GetSprintsEnter("GET /sprints", "getSprints")
       \/ \E id \in SprintIds : GetSprintWorkItemsEnter("GET /sprints/:sprintId/workitems", id)
       \/ GetSprintsEnter("GET /sprints/current/metrics", "getCurrentSprintMetrics")
       \/ \E b \in CreateBodies : WorkItemEnter("POST /workitems", "createWorkItem", b)
       \/ \E id \in ItemIds :
             WorkItemEnter("GET /workitems/:id", "getWorkItem", [workItemId |-> id])
       \/ \E id \in ItemIds, b \in UpdateBodies :
             WorkItemEnter("PATCH /workitems/:id", "updateWorkItem", [workItemId |-> id] @@ b)
       \/ \E id \in ItemIds :
             WorkItemEnter("DELETE /workitems/:id", "deleteWorkItem", [workItemId |-> id])
       \/ \E b \in AIRequests \cup {EmptyObject} : AnalyzeSprintEnter("POST /ai/analyze-sprint", b)
       \/ \E b \in RecommendationBodies :
             RecommendationsEnter("POST /ai/workitem-recommendations", b)
       \/ RelayEnter("GET /mcp/status", "getMCPStatus", EmptyObject)
       \/ \E b \in CommandArgs : RelayEnter("POST /mcp/command", "sendMCPCommand", b)
       \/ \E b \in QueryArgs : RelayEnter("POST /mcp/query", "queryMCP", b)
    /\ UNCHANGED rpc

NextRoutes ==
    \/ RestRequest
    \/ SprintsResponse
    \/ RefsResponse
    \/ DetailsResponse
    \/ WorkItemResponse
    \/ AnalysisResponse
    \/ RecommendationsResponse
    \/ RelayResponse
    \/ Reset

SpecRoutes == InitProcess /\ [][NextRoutes]_vars

\* the text `part` occurs in the message `msg`
Mentions(msg, part) == \E i \in DOMAIN msg : msg[i] = part

MentionsAll(msg, text) == \A k \in DOMAIN text : Mentions(msg, text[k])

\* the tracker rejected the create call with an HTTP error status
CreateRejected ==
    /\ front = "POST /workitems" /\ pc = "done"
    /\ Len(replies) = 1 /\ ~replies[1].ok
    /\ "response" \in DOMAIN replies[1].error

\* C9: when the tracker rejects the create call with an HTTP error status,
\* createWorkItem fails with an error that carries the remote status code
\* together with the remote message, and POST /workitems answers HTTP 500 with
\* success=false and an error text containing that status detail, whether or
\* not the tracker's error body supplies its own message.
C9_CreateErrorCarriesStatus ==
    CreateRejected =>
        LET resp == replies[1].error.response
        IN /\ Threw
           /\ Mentions(outcome.message, resp.status)
           /\ ("message" \in DOMAIN resp.data) => MentionsAll(outcome.message, resp.data.message)
           /\ Len(http) = 1
           /\ http[1].status = 500
           /\ http[1].body.success = FALSE
           /\ Mentions(http[1].body.error, resp.status)

\* the detail createWorkItem appends: the body's message, else the body's
\* value, else the transport's message, which names the status
ExpectedDetail(error) ==
    LET d == error.response.data
    IN IF "message" \in DOMAIN d /\ d.message # <<>> THEN d.message
       ELSE IF "value" \in DOMAIN d /\ d.value # <<>> THEN d.value
       ELSE <<"Request failed with status code ", error.response.status>>

\* C9 (amended): when the tracker rejects the create call with an HTTP error
\* status, createWorkItem fails with the error "Failed to create <type>: "
\* followed by the error body's message if it has a non-empty one, else by the
\* body's value text, else by the transport's message, which names the status
\* code; POST /workitems answers HTTP 500 with success=false and exactly that
\* error text.  The status code is in the text only in the last case.
C9_CreateErrorCarriesRemoteDetail ==
    CreateRejected =>
        LET error == replies[1].error
            type == IF "workItemType" \in DOMAIN args THEN args.workItemType ELSE "undefined"
            text == <<"Failed to create ", type, ": ">> \o ExpectedDetail(error)
        IN /\ Threw
           /\ outcome.message = text
           /\ http = <<[status |-> 500, body |-> [success |-> FALSE, error |-> text]]>>
           /\ Mentions(outcome.message, error.response.status)
                 <=> (~Truthy(error.response.data, "message")
                        /\ ~Truthy(error.response.data, "value"))

\* a 401 whose body has its own message: the text has the message, not 401
C9_Witness ==
    /\ CreateRejected
    /\ args = [workItemType |-> "Task", title |-> "X"]
    /\ replies[1].error.response = [status |-> "401", data |-> [message |-> <<"Access denied">>]]
    /\ outcome.message = <<"Failed to create ", "Task", ": ", "Access denied">>
    /\ http[1].status = 500
    /\ ~Mentions(http[1].body.error, "401")

\* C10: every route under the API prefix answers exactly one envelope per
\* request, written when the operation ends: success=true with the operation's
\* result (status 200) when it returns, and HTTP 500 with success=false and
\* the error's message when it throws, whatever the kind of error; no route
\* answers success=true after its operation threw.
C10_OneEnvelopePerRequest ==
    (front \in Routes) =>
        /\ pc # "done" => http = <<>>
        /\ pc = "done" =>
              /\ Len(http) = 1
              /\ Returned =>
                    /\ http[1].status = 200
                    /\ http[1].body.success = TRUE
                    /\ DOMAIN http[1].body = {"success", "data"}
                    /\ http[1].body.data =
                          (IF front = "DELETE /workitems/:id" THEN [deleted |-> TRUE]
                           ELSE IF front = "POST /ai/workitem-recommendations"
                           THEN [recommendations |-> outcome.value]
                           ELSE outcome.value)
              /\ Threw =>
                    /\ http[1].status = 500
                    /\ http[1].body.success = FALSE
                    /\ DOMAIN http[1].body = {"success", "error"}
                    /\ http[1].body.error = outcome.message
              /\ Returned \/ Threw

\* relay disabled: POST /mcp/command answers 500 with the not-configured text
C10_Witness ==
    /\ front = "POST /mcp/command" /\ pc = "done"
    /\ mcpClient = "null"
    /\ Threw
    /\ http = <<[status |-> 500,
                 body |-> [success |-> FALSE,
                           error |-> <<"MCP is not enabled or configured">>]]>>

----------------------------------------------------------------------------
(* boardmanager.ts: getBoards, getBoardColumns *)

\* the project name stands in for the team name
BoardCall(o, a) ==
    [client |-> "azure", verb |-> "GET",
     url |-> IF o = "getBoards" THEN <<"/", "project", "/_apis/work/boards">>
             ELSE <<"/", "project", "/_apis/work/boards/", a.boardId, "/columns">>]

\* answers a failed fetch with an empty list
BoardErrorSlip(o, a, error) == Return(<<>>)

BoardError(o, a, error) ==
    Throw((IF o = "getBoards" THEN <<"Failed to fetch boards: ">>
           ELSE <<"Failed to fetch columns for board ", a.boardId, ": ">>) \o errorMsg(error))

\* entry of getBoards() / getBoardColumns(boardId)
BoardEnter(fr, o, a) ==
    /\ pc = "idle"
    /\ o \in {"getBoards", "getBoardColumns"}
    /\ front' = fr /\ op' = o /\ args' = a
    /\ locals' = EmptyObject
    /\ calls' = <<BoardCall(o, a)>>
    /\ replies' = <<>>
    /\ Await("awaitBoards")
    /\ UNCHANGED <<stdinVars, config, mcpClient>>

\* what the boards endpoint answers: no `value`, an empty list, one entry
BoardBodies(o) ==
    {EmptyObject, [value |-> <<>>],
     [value |-> <<IF o = "getBoards"
                  THEN [id |-> "b1", name |-> "Stories", url |-> "https://tracker/boards/b1"]
                  ELSE [id |-> "c1", name |-> "Doing", itemLimit |-> 5,
                        columnType |-> "inProgress", isSplit |-> FALSE,
                        stateMappings |-> [Task |-> "Active"]]>>]}

\* the boards call settles: `response.data.value || []`
BoardResponse ==
    /\ pc = "awaitBoards"
    /\ \E r \in {Ok(b) : b \in BoardBodies(op)} \cup {Fail(e) : e \in Failures} :
        /\ replies' = Append(replies, r)
        /\ IF ~r.ok
           THEN Finish(front, BoardError(op, args, r.error))
           ELSE Finish(front, Return(IF Has(r.data, "value") THEN r.data.value ELSE <<>>))
    /\ UNCHANGED <<stdinVars, config, mcpClient, rpc, front, op, args, locals, calls>>

----------------------------------------------------------------------------
(* mcp/tools.ts: the tool registry *)

MCP_TOOLS ==
    <<[name |-> "get_sprints", required |-> <<>>],
      [name |-> "get_sprint_work_items", required |-> <<"sprintId">>],
      [name |-> "get_current_sprint_metrics", required |-> <<>>],
      [name |-> "create_work_item", required |-> <<"workItemType", "title">>],
      [name |-> "update_work_item", required |-> <<"workItemId", "updates">>],
      [name |-> "get_work_item", required |-> <<"workItemId">>],
      [name |-> "analyze_sprint_with_ai", required |-> <<>>],
      [name |-> "get_all_tasks", required |-> <<>>],
      [name |-> "get_boards", required |-> <<>>],
      [name |-> "get_board_columns", required |-> <<"boardId">>]>>

----------------------------------------------------------------------------
(* mcp/handlers.ts: executeToolCall *)

\* the `case` labels of the switch
HandlerCases ==
    {"get_sprints", "get_sprint_work_items", "get_current_sprint_metrics",
     "create_work_item", "update_work_item", "get_work_item", "analyze_sprint_with_ai",
     "get_all_tasks", "get_boards", "get_board_columns"}

\* `!args[f]`: absent, the empty string or the number 0; an object is truthy
Falsy(a, f) ==
    \/ ~Has(a, f)
    \/ f = "workItemId" /\ a[f] = 0
    \/ f \notin {"workItemId", "updates"} /\ a[f] = ""

\* create_work_item tests the type only
HandlerGuardSlip(name) ==
    CASE name = "get_sprint_work_items" ->
            [checks |-> {"sprintId"}, message |-> <<"sprintId is required">>]
      [] name = "create_work_item" ->
            [checks |-> {"workItemType"},
             message |-> <<"workItemType and title are required">>]
      [] name = "update_work_item" ->
            [checks |-> {"workItemId", "updates"},
             message |-> <<"workItemId and updates are required">>]
      [] name = "get_work_item" ->
            [checks |-> {"workItemId"}, message |-> <<"workItemId is required">>]
      [] name = "get_board_columns" ->
            [checks |-> {"boardId"}, message |-> <<"boardId is required">>]
      [] OTHER -> [checks |-> {}, message |-> <<>>]

\* the `if (!args.x ...) throw` at the top of a case
HandlerGuard(name) ==
    CASE name = "get_sprint_work_items" ->
            [checks |-> {"sprintId"}, message |-> <<"sprintId is required">>]
      [] name = "create_work_item" ->
            [checks |-> {"workItemType", "title"},
             message |-> <<"workItemType and title are required">>]
      [] name = "update_work_item" ->
            [checks |-> {"workItemId", "updates"},
             message |-> <<"workItemId and updates are required">>]
      [] name = "get_work_item" ->
            [checks |-> {"workItemId"}, message |-> <<"workItemId is required">>]
      [] name = "get_board_columns" ->
            [checks |-> {"boardId"}, message |-> <<"boardId is required">>]
      [] OTHER -> [checks |-> {}, message |-> <<>>]

\* the reduced summary a case makes of one entity; a property that is
\* undefined is left out by JSON.stringify (the tracker's sprints here carry no
\* path or dates, its items no description)
Concise(name, e) ==
    LET Field(key, f) == IF Has(e.fields, f) THEN key :> e.fields[f] ELSE EmptyObject
        assignedTo ==
            IF Has(e.fields, "System.AssignedTo")
                  /\ Has(e.fields["System.AssignedTo"], "displayName")
            THEN e.fields["System.AssignedTo"].displayName ELSE "Unassigned"
    IN CASE name = "get_sprints" ->
               [id |-> e.id, name |-> e.name, timeFrame |-> e.attributes.timeFrame]
         [] name = "get_sprint_work_items" ->
               [id |-> e.id, assignedTo |-> assignedTo]
                   @@ Field("type", TypeField) @@ Field("title", TitleField)
                   @@ Field("state", StateField)
         [] name = "create_work_item" ->
               [id |-> e.id,
                url |-> <<"https://dev.azure.com/", "org", "/", "project",
                          "/_workitems/edit/", ToString(e.id)>>]
                   @@ Field("type", TypeField) @@ Field("title", TitleField)
                   @@ Field("state", StateField)
         [] name = "update_work_item" ->
               [id |-> e.id, updated |-> TRUE]
                   @@ Field("title", TitleField) @@ Field("state", StateField)
         [] name = "get_work_item" ->
               [id |-> e.id, assignedTo |-> assignedTo,
                description |-> IF Has(e.fields, DescriptionField)
                                THEN e.fields[DescriptionField] ELSE ""]
                   @@ Field("type", TypeField) @@ Field("title", TitleField)
                   @@ Field("state", StateField)
         [] name = "get_all_tasks" ->
               [id |-> e.id, assignedTo |-> assignedTo]
                   @@ Field("title", TitleField) @@ Field("state", StateField)
         [] name = "get_boards" -> [id |-> e.id, name |-> e.name, url |-> e.url]
         [] name = "get_board_columns" ->
               [id |-> e.id, name |-> e.name, itemLimit |-> e.itemLimit,
                columnType |-> e.columnType, stateMappings |-> e.stateMappings]

\* `result` of a case once its operation has returned `value`
ToolResult(name, value) ==
    IF name \in {"get_current_sprint_metrics", "analyze_sprint_with_ai"} THEN value
    ELSE IF name \in {"create_work_item", "update_work_item", "get_work_item"}
    THEN Concise(name, value)
    ELSE ArrayOf([i \in 1..Len(value) |-> Concise(name, value[i])])

\* reports every failure as a success
ToolCallResponseSlip(out) ==
    [content |-> <<[type |-> "text", text |-> <<[json |-> out]>>]>>]

\* what executeToolCall resolves to: one text block with
\* JSON.stringify(result, null, 2), or from the catch block "Error: " and
\* `error.message || 'Unknown error'`, flagged isError
ToolCallResponse(out) ==
    IF out.kind = "return"
    THEN [content |-> <<[type |-> "text", text |-> <<[json |-> out.value]>>]>>]
    ELSE [content |-> <<[type |-> "text",
                         text |-> <<"Error: ">> \o (IF out.message # <<>> THEN out.message
                                                    ELSE <<"Unknown error">>)]>>,
          isError |-> TRUE]

----------------------------------------------------------------------------
(* mcp/index.ts: the JSON-RPC server on stdin / stdout *)

\* `id || 0`; an id is written as its JSON text, so that numbers and strings
\* can stand side by side: 0 and the empty string are the falsy ones
ResponseId(request) ==
    IF Has(request, "id") /\ request.id \notin {"0", "\"\""} THEN request.id ELSE "0"

\* sendResponse with a result
Response(request, result) == [jsonrpc |-> "2.0", id |-> ResponseId(request), result |-> result]

\* sendError: `data` is undefined at every call reached here
ErrorResponse(request, code, message) ==
    [jsonrpc |-> "2.0", id |-> ResponseId(request),
     error |-> [code |-> code, message |-> message]]

\* `!params || !params.name`
NamesTool(request) ==
    Has(request, "params") /\ Has(request.params, "name") /\ request.params.name # ""

\* `params.arguments || {}`
Arguments(request) ==
    IF Has(request.params, "arguments") THEN request.params.arguments ELSE EmptyObject

\* answers every line but `initialized` with the tool list
SimpleAnswerSlip(request) ==
    IF request.method = "initialized" THEN <<>>
    ELSE <<[jsonrpc |-> "2.0", id |-> "0", result |-> [tools |-> MCP_TOOLS]]>>

\* handleRequest for a line that runs no tool: what it writes to stdout
SimpleAnswer(request) ==
    CASE request.method = "initialize" ->
            <<Response(request,
                       [protocolVersion |-> "2024-11-05",
                        capabilities |-> [tools |-> EmptyObject],
                        serverInfo |-> [name |-> "azure-devops-sprint-manager",
                                        version |-> "1.0.0"]])>>
      [] request.method = "initialized" -> <<>>
      [] request.method = "tools/list" -> <<Response(request, [tools |-> MCP_TOOLS])>>
      [] request.method = "tools/call" ->
            <<ErrorResponse(request, -32602, <<"Invalid params: name is required">>)>>
      [] OTHER ->
            <<ErrorResponse(request, -32601, <<"Method not found: ", request.method>>)>>

\* a request line that runs no tool is read and answered
SimpleRequest(request) ==
    /\ pc = "idle"
    /\ request.method = "tools/call" => ~NamesTool(request)
    /\ rpc' = request
    /\ front' = "stdio" /\ op' = "none" /\ args' = EmptyObject
    /\ locals' = EmptyObject /\ calls' = <<>> /\ replies' = <<>>
    /\ stdout' = SimpleAnswer(request)
    /\ pc' = "done"
    /\ UNCHANGED <<stdinVars, config, mcpClient, outcome, http>>

\* executeToolCall throws before its first await: an unknown tool, or a case
\* whose `if (!args.x)` guard fires
ThrowsAtOnce(name, a) ==
    IF name \notin HandlerCases THEN Throw(<<"Unknown tool: ", name>>)
    ELSE IF \E f \in HandlerGuard(name).checks : Falsy(a, f)
    THEN Throw(HandlerGuard(name).message)
    ELSE NoOutcome

\* executeToolCall has ended with `out`: handleRequest sends the one response
ToolAnswered(request, out) ==
    /\ outcome' = out
    /\ stdout' = Append(stdout, Response(request, ToolCallResponse(out)))
    /\ pc' = "done"
    /\ UNCHANGED http

\* a tools/call line whose tool throws at once
ToolRejected(request) ==
    /\ pc = "idle"
    /\ request.method = "tools/call" /\ NamesTool(request)
    /\ ThrowsAtOnce(request.params.name, Arguments(request)) # NoOutcome
    /\ rpc' = request
    /\ front' = "tools/call" /\ op' = "none" /\ args' = Arguments(request)
    /\ locals' = EmptyObject /\ calls' = <<>> /\ replies' = <<>>
    /\ ToolAnswered(request, ThrowsAtOnce(request.params.name, Arguments(request)))
    /\ UNCHANGED <<stdinVars, config, mcpClient>>

\* a tools/call line whose tool calls its operation
ToolCall(request) ==
    /\ request.method = "tools/call" /\ NamesTool(request)
    /\ ThrowsAtOnce(request.params.name, Arguments(request)) = NoOutcome
    /\ rpc' = request
    /\ LET name == request.params.name
           a == Arguments(request)
       IN CASE name = "get_sprints" -> GetSprintsEnter("tools/call", "getSprints")
            [] name \in {"get_current_sprint_metrics", "analyze_sprint_with_ai"} ->
                  GetSprintsEnter("tools/call", "getCurrentSprintMetrics")
            [] name = "get_sprint_work_items" ->
                  GetSprintWorkItemsEnter("tools/call", a.sprintId)
            [] name = "create_work_item" -> WorkItemEnter("tools/call", "createWorkItem", a)
            [] name = "update_work_item" -> WorkItemEnter("tools/call", "updateWorkItem", a)
            [] name = "get_work_item" -> WorkItemEnter("tools/call", "getWorkItem", a)
            [] name = "get_all_tasks" -> GetAllTasksEnter("tools/call")
            [] name = "get_boards" -> BoardEnter("tools/call", "getBoards", a)
            [] name = "get_board_columns" -> BoardEnter("tools/call", "getBoardColumns", a)

\* the operation awaited by executeToolCall has settled: the catch block, the
\* next step of analyze_sprint_with_ai, or the result
ToolResume ==
    /\ pc = "handler"
    /\ LET name == rpc.params.name
           next == IF name # "analyze_sprint_with_ai" THEN "none"
                   ELSE CASE op = "getCurrentSprintMetrics" -> "getSprints"
                          [] op = "getSprints" -> "getSprintWorkItems"
                          [] op = "getSprintWorkItems" -> "analyzeSprintWithAI"
                          [] OTHER -> "none"
       IN IF Threw
          THEN /\ ToolAnswered(rpc, outcome)
               /\ UNCHANGED <<op, args, locals, calls>>
          ELSE IF next = "none"
          THEN /\ ToolAnswered(rpc, Return(ToolResult(name, outcome.value)))
               /\ UNCHANGED <<op, args, locals, calls>>
          ELSE IF next = "getSprints"
          THEN IF outcome.value = Null
               THEN /\ ToolAnswered(rpc, Throw(<<"No active sprint found">>))
                    /\ UNCHANGED <<op, args, locals, calls>>
               ELSE /\ op' = "getSprints" /\ args' = EmptyObject
                    /\ locals' = [metrics |-> outcome.value]
                    /\ calls' = Append(calls, SprintsCall)
                    /\ outcome' = NoOutcome
                    /\ pc' = "awaitSprints"
                    /\ UNCHANGED <<http, stdout>>
          ELSE IF next = "getSprintWorkItems"
          THEN LET sprints == outcome.value
                   k == FindCurrent(sprints)
               IN IF k = 0
                  THEN /\ ToolAnswered(rpc, Throw(<<"No current sprint found">>))
                       /\ UNCHANGED <<op, args, locals, calls>>
                  ELSE /\ op' = "getSprintWorkItems" /\ args' = [sprintId |-> sprints[k].id]
                       /\ locals' = [metrics |-> locals.metrics, sprintId |-> sprints[k].id]
                       /\ calls' = Append(calls, RefsCall(sprints[k].id))
                       /\ outcome' = NoOutcome
                       /\ pc' = "awaitRefs"
                       /\ UNCHANGED <<http, stdout>>
          ELSE LET request == [sprintData |-> locals.metrics, workItems |-> outcome.value]
                                  @@ (IF Has(Arguments(rpc), "context")
                                      THEN [context |-> Arguments(rpc).context]
                                      ELSE EmptyObject)
               IN /\ op' = "analyzeSprintWithAI" /\ args' = request
                  /\ locals' = EmptyObject
                  /\ calls' = Append(calls, AnalysisCall(generateAnalysisPrompt(request)))
                  /\ outcome' = NoOutcome
                  /\ pc' = "awaitAI"
                  /\ UNCHANGED <<http, stdout>>
    /\ UNCHANGED <<stdinVars, config, mcpClient, rpc, front, replies>>

\* the arguments a client sends with a tool: every named argument present or
\* absent, text arguments also empty, the item id also 0
ToolArguments(name) ==
    CASE name = "get_sprint_work_items" -> Optional("sprintId", {"s1", ""})
      [] name = "create_work_item" -> CreateBodies
      [] name = "update_work_item" ->
            {i @@ u : i \in Optional("workItemId", ItemIds), u \in UpdateBodies}
      [] name = "get_work_item" -> Optional("workItemId", ItemIds)
      [] name = "analyze_sprint_with_ai" -> Optional("context", {"release"})
      [] name = "get_board_columns" -> Optional("boardId", {"b1", ""})
      [] OTHER -> {EmptyObject}

\* the request lines: the four methods and one the server does not know, with
\* the ids 0, 7 and "" and without an id; tools/call with a truthy id, a falsy
\* one and none, without params, without a name, with an empty name, with each
\* registered tool and with a tool that is not registered
Requests ==
    LET names == {MCP_TOOLS[i].name : i \in DOMAIN MCP_TOOLS} \cup {"delete_work_item"}
        params == {EmptyObject, [name |-> ""], [arguments |-> EmptyObject]}
                      \cup UNION {{[name |-> n] @@ a :
                                      a \in Optional("arguments", ToolArguments(n))} :
                                  n \in names}
    IN {[jsonrpc |-> "2.0", method |-> m] @@ i @@ p :
           m \in {"initialize", "initialized", "tools/list", "ping"},
           i \in Optional("id", {"0", "7", "\"\""}), p \in Optional("params", {EmptyObject})}
           \cup {[jsonrpc |-> "2.0", method |-> "tools/call"] @@ i @@ p :
                    i \in Optional("id", {"7", "\"\""}), p \in Optional("params", params)}

\* the tracker and the model as the tool server sees them: iteration lists of
\* at most MaxToolSprints sprints, short link lists, a handful of reply texts
MaxToolSprints == 1

ToolSprintLists ==
    {ArrayOf([i \in 1..Len(tfs) |-> SprintOf(i, tfs[i])]) :
        tfs \in SeqsUpTo({"past", "current"}, MaxToolSprints)}

\* no link list, an empty one, a link without a target, a link to item 1
ToolRefsBodies ==
    {EmptyObject, [workItemRelations |-> <<>>], [workItemRelations |-> <<[rel |-> "x"]>>],
     [workItemRelations |-> <<[rel |-> "x", target |-> [id |-> 1]]>>]}

ToolQueryBodies ==
    {EmptyObject, [workItems |-> <<>>], [workItems |-> <<[id |-> 1]>>],
     [workItems |-> <<[id |-> 2], [id |-> 1]>>]}

ToolReplyTexts == {<<>>, <<"x">>, <<"{", "}">>, <<"{", Member, "}">>, <<"{", "x", "}">>}

StdinLine ==
    \E request \in Requests :
        \/ SimpleRequest(request)
        \/ ToolRejected(request)
        \/ ToolCall(request)

NextTools ==
    \/ StdinLine
    \/ SprintsResponseOver(ToolSprintLists)
    \/ RefsResponseOver(ToolRefsBodies)
    \/ DetailsResponse
    \/ WorkItemResponse
    \/ QueryResponseOver(ToolQueryBodies)
    \/ BulkResponse
    \/ BoardResponse
    \/ AnalysisResponseOver(ToolReplyTexts)
    \/ ToolResume
    \/ Reset

\* the tool server is a process of its own; the relay plays no part in it
SpecTools == InitAI /\ [][NextTools]_vars

\* the request being handled is a tools/call that names a tool
IsToolCall == rpc.method = "tools/call" /\ NamesTool(rpc)

\* the tool of the current call failed, told from the request and from what
\* the remote ends answered: the tool is not registered, an argument its
\* registry entry requires is missing, a remote call failed, the analysis found
\* no current sprint, or the model's answer was unusable
ToolFailed ==
    LET name == rpc.params.name
        entries == {i \in DOMAIN MCP_TOOLS : MCP_TOOLS[i].name = name}
        required == UNION {{MCP_TOOLS[i].required[k] : k \in DOMAIN MCP_TOOLS[i].required} :
                              i \in entries}
        last == replies[Len(replies)]
        text == IF last.data.choices # <<>> /\ Has(last.data.choices[1], "message")
                THEN last.data.choices[1].message.content ELSE <<>>
    IN \/ entries = {}
       \/ \E f \in required : Falsy(Arguments(rpc), f)
       \/ \E i \in DOMAIN replies : ~replies[i].ok
       \/ /\ name = "analyze_sprint_with_ai"
          /\ \E i \in DOMAIN replies :
                /\ calls[i] = SprintsCall
                /\ \A k \in DOMAIN replies[i].data.value :
                      replies[i].data.value[k].attributes.timeFrame # "current"
       \/ /\ op = "analyzeSprintWithAI" /\ Len(replies) = Len(calls)
          /\ \/ ~Has(last.data, "choices")
             \/ HasBracePair(text) /\ ~IsObjectText(BraceSpan(text))

\* C11: every tools/call that names a tool, registered or not, is answered,
\* whatever the remote ends do, with exactly one JSON-RPC message, which carries
\* a result and no protocol error; the result holds exactly one text block, and
\* its isError flag is set exactly when the tool failed.  Nothing is written
\* before the tool has ended, and the request ends at the point where the next
\* line is read.
C11_ToolCallAnsweredWithOneTextBlock ==
    IsToolCall =>
        /\ pc # "idle"
        /\ pc # "done" => stdout = <<>>
        /\ pc = "done" =>
              /\ Len(stdout) = 1
              /\ DOMAIN stdout[1] = {"jsonrpc", "id", "result"}
              /\ LET result == stdout[1].result
                 IN /\ DOMAIN result \subseteq {"content", "isError"}
                    /\ Len(result.content) = 1
                    /\ result.content[1].type = "text"
                    /\ Has(result, "isError") <=> ToolFailed
                    /\ Has(result, "isError") =>
                          (result.isError /\ result.content[1].text[1] = "Error: ")

\* get_work_item 7 was answered 500 by the tracker: one flagged text block
C11_Witness ==
    /\ IsToolCall /\ rpc.params.name = "get_work_item"
    /\ pc = "done"
    /\ Len(replies) = 1 /\ ~replies[1].ok
    /\ Len(stdout) = 1
    /\ stdout[1].result.isError
    /\ stdout[1].result.content[1].text =
          <<"Error: ", "Failed to fetch work item ", "7", ": ", "Access denied">>

\* the registry entry of the tool named by the current call, if it has one
Registered == \E i \in DOMAIN MCP_TOOLS : MCP_TOOLS[i].name = rpc.params.name

RequiredList ==
    MCP_TOOLS[CHOOSE i \in DOMAIN MCP_TOOLS : MCP_TOOLS[i].name = rpc.params.name].required

\* the current call is to a registered tool and lacks an argument that the
\* tool's registry entry requires
LacksRequiredArgument ==
    /\ IsToolCall /\ Registered
    /\ \E k \in DOMAIN RequiredList : ~Has(Arguments(rpc), RequiredList[k])

\* C12: a tools/call to a registered tool that lacks an argument named in the
\* tool's required list is answered with a JSON-RPC invalid-params error
\* (code -32602), and no outbound call is issued.
C12_MissingArgumentIsInvalidParams ==
    LacksRequiredArgument =>
        /\ pc = "done"
        /\ calls = <<>>
        /\ Len(stdout) = 1
        /\ Has(stdout[1], "error")
        /\ stdout[1].error.code = -32602

\* C12 (amended): a tools/call to a registered tool that lacks an argument
\* named in the tool's required list is answered at once, with no outbound
\* call issued, by a tool result flagged isError whose one text block reads
\* "Error: <argument> is required" (for two required arguments, "Error: <first>
\* and <second> are required"); the reply is a JSON-RPC result, not an
\* invalid-params error.
C12_MissingArgumentIsErrorResult ==
    LacksRequiredArgument =>
        /\ pc = "done"
        /\ calls = <<>> /\ replies = <<>>
        /\ Len(stdout) = 1
        /\ DOMAIN stdout[1] = {"jsonrpc", "id", "result"}
        /\ Has(stdout[1].result, "isError") /\ stdout[1].result.isError
        /\ stdout[1].result.content =
              <<[type |-> "text",
                 text |-> <<"Error: ",
                            IF Len(RequiredList) = 1 THEN RequiredList[1] \o " is required"
                            ELSE RequiredList[1] \o " and " \o RequiredList[2]
                                     \o " are required">>]>>

\* create_work_item was called with a type and no title
C12_Witness ==
    /\ IsToolCall /\ rpc.params.name = "create_work_item"
    /\ Has(Arguments(rpc), "workItemType") /\ ~Has(Arguments(rpc), "title")
    /\ pc = "done"
    /\ calls = <<>>
    /\ stdout[1].result.isError

\* C14: a request line with method `initialized` produces no output;
\* `initialize`, `tools/list` and `tools/call` each produce exactly one
\* response; any other method produces exactly one method-not-found error
\* (-32601); a tools/call without a tool name produces exactly one
\* invalid-params error (-32602) and no tool is executed.  Nothing is written
\* while the request is still being handled.
C14_OneResponsePerRequestLine ==
    rpc.method # "none" =>
        /\ pc # "done" => stdout = <<>>
        /\ pc = "done" =>
              CASE rpc.method = "initialized" -> stdout = <<>>
                [] rpc.method \in {"initialize", "tools/list"} ->
                      /\ Len(stdout) = 1
                      /\ DOMAIN stdout[1] = {"jsonrpc", "id", "result"}
                [] rpc.method = "tools/call" /\ NamesTool(rpc) -> Len(stdout) = 1
                [] rpc.method = "tools/call" /\ ~NamesTool(rpc) ->
                      /\ Len(stdout) = 1
                      /\ DOMAIN stdout[1] = {"jsonrpc", "id", "error"}
                      /\ stdout[1].error.code = -32602
                      /\ op = "none" /\ outcome = NoOutcome
                      /\ calls = <<>>
                [] OTHER ->
                      /\ Len(stdout) = 1
                      /\ DOMAIN stdout[1] = {"jsonrpc", "id", "error"}
                      /\ stdout[1].error.code = -32601
                      /\ stdout[1].error.message = <<"Method not found: ", rpc.method>>

\* a tools/call with arguments and no tool name was refused
C14_Witness ==
    /\ rpc.method = "tools/call"
    /\ Has(rpc, "params") /\ ~Has(rpc.params, "name") /\ Has(rpc.params, "arguments")
    /\ pc = "done"
    /\ Len(stdout) = 1
    /\ stdout[1].error.code = -32602

IsAnalyzeCall == IsToolCall /\ rpc.params.name = "analyze_sprint_with_ai"

\* the one message written is a flagged text block "Error: ..." and nothing else
IsErrorResult ==
    /\ Len(stdout) = 1
    /\ DOMAIN stdout[1] = {"jsonrpc", "id", "result"}
    /\ DOMAIN stdout[1].result = {"content", "isError"}
    /\ stdout[1].result.isError
    /\ Len(stdout[1].result.content) = 1
    /\ stdout[1].result.content[1].text[1] = "Error: "

\* the i-th call asked for the sprint list and the list has no current sprint
NoCurrentAt(i) ==
    /\ calls[i] = SprintsCall /\ replies[i].ok
    /\ \A k \in DOMAIN replies[i].data.value :
          replies[i].data.value[k].attributes.timeFrame # "current"

\* C20: in an analyze_sprint_with_ai tool call, when a remote call of any step
\* (sprint list, work-item fetch, AI completion) fails, it is the last call of
\* the request and the reply is an error result without any analysis; when a
\* sprint list comes back without a current sprint, that call is the last one,
\* the reply is an error result, and the AI endpoint is never called.
C20_AnalyzeToolFailsAsAWhole ==
    IsAnalyzeCall =>
        /\ \A i \in DOMAIN replies :
              (~replies[i].ok \/ NoCurrentAt(i)) =>
                  /\ i = Len(replies) /\ i = Len(calls)
                  /\ pc \in {"handler", "done"}
                  /\ pc = "done" => IsErrorResult
        /\ (\E i \in DOMAIN replies : NoCurrentAt(i)) =>
              \A k \in DOMAIN calls : calls[k].client # "openRouter"

\* the metrics and the work items were fetched, then the completion call
\* failed: an error result, and the failed call is the last one
C20_Witness ==
    /\ IsAnalyzeCall /\ pc = "done"
    /\ Len(calls) >= 5 /\ Len(replies) = Len(calls)
    /\ calls[Len(calls)].client = "openRouter"
    /\ ~replies[Len(replies)].ok
    /\ IsErrorResult

\* C13: the tool registry, the tools/call handler and the REST router expose
\* the same operations: every tool name in the registry has a handler case,
\* every handler case is a registered tool, and the operation a registered
\* tool runs is one that a REST route runs too.
C13_SameOperationsOnBothFrontEnds ==
    /\ {MCP_TOOLS[i].name : i \in DOMAIN MCP_TOOLS} = HandlerCases
    /\ (IsToolCall /\ Registered /\ op # "none") => op \in RouteOperations

\* C28: a tools/call to a registered tool that supplies a value for every
\* argument in the tool's required list passes the argument guard and reaches
\* the underlying operation, whatever the values are (the work item id 0 and
\* an empty title included): the operation is entered and issues its call.
C28_SuppliedArgumentsPassValidation ==
    (/\ IsToolCall /\ Registered
     /\ \A k \in DOMAIN RequiredList : Has(Arguments(rpc), RequiredList[k])) =>
        /\ op # "none"
        /\ calls # <<>>

\* C23: when analyze_sprint_with_ai hands the metrics and the work items to the
\* model client, they are one snapshot of one sprint: the item list was fetched
\* for the sprint of the metrics and has as many items as the metrics count.
C23_MetricsAndItemsAreOneSnapshot ==
    (IsAnalyzeCall /\ op = "analyzeSprintWithAI") =>
        /\ args.sprintData.totalWorkItems = Len(args.workItems)
        /\ \A i \in DOMAIN calls :
              (calls[i].client = "azure" /\ IsRefsCall(calls[i])) =>
                  calls[i].url[2] = args.sprintData.sprintId

\* C27: every response to a request line that carries an id, be it a number
\* or a string, 0 and the empty string included, carries that same id.
C27_ResponseCarriesRequestId ==
    (rpc.method # "none" /\ Has(rpc, "id")) =>
        \A k \in DOMAIN stdout : stdout[k].id = rpc.id

----------------------------------------------------------------------------
(* Both front-ends over the same operations *)

\* the relay is switched off, or switched on with its URL
InitAll ==
    /\ config \in {[enabled |-> FALSE], [enabled |-> TRUE, serverUrl |-> "http://relay"]}
    /\ mcpClient = initializeMCPClient(config)
    /\ InitIdle

NextAll ==
    \/ RestRequest
    \/ StdinLine
    \/ SprintsResponseOver(ToolSprintLists)
    \/ RefsResponseOver(ToolRefsBodies)
    \/ DetailsResponse
    \/ WorkItemResponse
    \/ QueryResponseOver(ToolQueryBodies)
    \/ BulkResponse
    \/ BoardResponse
    \/ AnalysisResponseOver(ToolReplyTexts)
    \/ RecommendationsResponse
    \/ RelayResponse
    \/ ToolResume
    \/ Reset

SpecAll == InitAll /\ [][NextAll]_vars

\* an operation has ended, with a value or with an error
OperationEnded == pc \in {"handler", "done"} /\ op # "none"

SomeCallFailed == \E i \in DOMAIN replies : ~replies[i].ok

NoCallSucceeded == \A i \in DOMAIN replies : ~replies[i].ok

\* C17: whenever an outbound call has failed during an operation, the
\* operation ends with an error; and an operation returns a value without any
\* successful remote call only as relay getStatus while the relay is disabled
\* or as the AI fallback for a reply without JSON.
C17_OnlyTwoFallbacks ==
    OperationEnded =>
        /\ SomeCallFailed => Threw
        /\ (Returned /\ NoCallSucceeded) =>
              \/ op = "getMCPStatus" /\ mcpClient = "null"
              \/ op = "analyzeSprintWithAI" /\ outcome.value.riskLevel = "medium"

\* C17 (amended): whenever an outbound call has failed during an operation,
\* the operation ends with an error, except relay getStatus, which answers a
\* failed status call with {online: false}; and an operation returns a value
\* without any successful remote call only as relay getStatus, while the relay
\* is disabled or after its status call failed (the AI fallback for a reply
\* without JSON follows a successful completion call).
C17_FailuresReportedButStatus ==
    OperationEnded =>
        /\ SomeCallFailed =>
              \/ Threw
              \/ op = "getMCPStatus" /\ outcome.value = [online |-> FALSE]
        /\ (Returned /\ NoCallSucceeded) =>
              (op = "getMCPStatus" /\ outcome.value = [online |-> FALSE])

\* the relay is enabled, its status call failed, and getStatus returned offline
C17_Witness ==
    /\ op = "getMCPStatus" /\ pc = "done"
    /\ mcpClient = "client"
    /\ Len(calls) = 1 /\ Len(replies) = 1 /\ ~replies[1].ok
    /\ Returned /\ outcome.value = [online |-> FALSE]

\* C19: no retries.  Once an outbound call has failed it is the last call of
\* the request: the operation has ended and no further call has been issued;
\* and when the failed call went to the tracker or to the AI endpoint, the
\* request ends in an error (HTTP 500 with success false on a route, a
\* flagged error result on a tool call).
C19_NoRetryAfterFailure ==
    \A i \in DOMAIN replies :
        ~replies[i].ok =>
            /\ i = Len(replies) /\ i = Len(calls)
            /\ pc \in {"handler", "done"}
            /\ calls[i].client \in {"azure", "openRouter"} =>
                  /\ Threw
                  /\ (pc = "done" /\ front = "tools/call") => IsErrorResult
                  /\ (pc = "done" /\ front \in Routes) =>
                        /\ Len(http) = 1
                        /\ http[1].status = 500 /\ ~http[1].body.success

\* the analysis tool fetched the sprint and its items twice over, then the
\* work-item details call of the second round failed: no call follows it
C19_Witness ==
    /\ IsAnalyzeCall /\ pc = "done"
    /\ Len(calls) = 6 /\ Len(replies) = 6
    /\ \A i \in 1..5 : replies[i].ok
    /\ ~replies[6].ok /\ calls[6].client = "azure"
    /\ IsErrorResult

----------------------------------------------------------------------------
(* The patch documents of createWorkItem and updateWorkItem *)

\* the fields createWorkItem can set, in the order the claim gives them
CreateFields ==
    <<[path |-> "/fields/System.Title", arg |-> "title"],
      [path |-> "/fields/System.Description", arg |-> "description"],
      [path |-> "/fields/System.AssignedTo", arg |-> "assignedTo"]>>

\* an argument counts as provided when it is present and not the empty string
IsProvided(f) == f.arg \in DOMAIN args /\ args[f.arg] # ""

ExpectedCreateFields ==
    SelectSeq(CreateFields, LAMBDA f : f.arg = "title" \/ IsProvided(f))

\* C15: createWorkItem submits exactly one patch document whose operations
\* are, in this order, the title (always), then the description if and only
\* if one was provided, then the assignee if and only if one was provided; no
\* other operation appears.
C15_CreatePatchDocument ==
    (op = "createWorkItem" /\ pc # "idle") =>
        /\ Len(calls) = 1
        /\ calls[1].verb = "POST"
        /\ Len(calls[1].body) = Len(ExpectedCreateFields)
        /\ \A i \in DOMAIN calls[1].body :
              LET o == calls[1].body[i]
                  f == ExpectedCreateFields[i]
              IN /\ o.op = "add"
                 /\ o.path = f.path
                 /\ IF f.arg \in DOMAIN args
                    THEN o.value = args[f.arg]
                    ELSE "value" \notin DOMAIN o

\* a create with a description and an assignee went through
C15_Witness ==
    /\ op = "createWorkItem" /\ pc = "done" /\ Returned
    /\ IsProvided(CreateFields[2]) /\ IsProvided(CreateFields[3])
    /\ Len(calls[1].body) = 3
    /\ calls[1].body[3].path = "/fields/System.AssignedTo"

\* C16: updateWorkItem submits exactly one patch whose operations are one
\* field-replace operation per entry of the updates mapping, with the same
\* field name and value, in the order of the fields in the mapping; an empty
\* mapping yields an empty patch.
C16_UpdatePatchDocument ==
    (op = "updateWorkItem" /\ "updates" \in DOMAIN args /\ pc # "idle") =>
        /\ Len(calls) = 1
        /\ calls[1].verb = "PATCH"
        /\ calls[1].url = <<"/wit/workitems/", ToString(args.workItemId)>>
        /\ Len(calls[1].body) = Len(args.updates)
        /\ \A i \in DOMAIN args.updates :
              /\ calls[1].body[i].op = "replace"
              /\ calls[1].body[i].path = "/fields/" \o args.updates[i][1]
              /\ calls[1].body[i].value = args.updates[i][2]

\* an update of two fields went through
C16_Witness ==
    /\ op = "updateWorkItem" /\ pc = "done" /\ Returned
    /\ Len(args.updates) = 2
    /\ calls[1].body[1].path = "/fields/System.Title"
    /\ calls[1].body[2].path = "/fields/System.State"

----------------------------------------------------------------------------
(* Presence of the inputs a route needs *)

\* the body fields each route reads and hands to its operation as required
\* arguments
RequiredInputs(fr) ==
    CASE fr = "POST /workitems" -> {"workItemType", "title"}
      [] fr = "PATCH /workitems/:id" -> {"updates"}
      [] fr = "POST /ai/analyze-sprint" -> {"sprintData", "workItems"}
      [] fr = "POST /ai/workitem-recommendations" -> {"workItem"}
      [] fr = "POST /mcp/command" -> {"command"}
      [] fr = "POST /mcp/query" -> {"query"}
      [] OTHER -> {}

LacksRequiredInput == \E f \in RequiredInputs(front) : f \notin DOMAIN args

\* C18: each REST route checks that its required path and body parameters
\* are present before acting: a request that lacks one (POST /workitems
\* without a title, PATCH /workitems/:id without an updates map, POST
\* /ai/analyze-sprint without workItems) is rejected without the outbound call
\* being issued.
C18_RoutesCheckPresence ==
    (front \in Routes /\ pc # "idle" /\ LacksRequiredInput) =>
        /\ calls = <<>>
        /\ pc = "done"
        /\ http[1].body.success = FALSE

----------------------------------------------------------------------------
(* mcp/index.ts: main, the 'data' and 'end' handlers of stdin *)

\* at most MaxLines newline-terminated lines are sent
MaxLines == 3

\* `text.split('\n')`: the pieces between the newlines, the last one the text
\* after the last newline
RECURSIVE Split(_)
Split(text) ==
    LET N == {i \in DOMAIN text : text[i] = "\n"}
    IN IF N = {} THEN <<text>>
       ELSE LET k == Min(N)
            IN <<SubSeq(text, 1, k - 1)>> \o Split(SubSeq(text, k + 1, Len(text)))

\* `line.trim()` is the empty string
IsBlank(line) == \A i \in DOMAIN line : line[i] = " "

SyntaxError == [name |-> "SyntaxError"]

\* `const request: MCPRequest = JSON.parse(line)`.  A request line is written in two characters, its method
\* and its id: L1 is {"jsonrpc":"2.0","id":1,"method":"tools/list"}, T1 is
\* {"jsonrpc":"2.0","id":1,"method":"tools/call","params":{"name":"get_sprints"}}.
\* White space around them is skipped; every other text is not JSON.
ParseRequest(line) ==
    LET t == SelectSeq(line, LAMBDA c : c # " ")
    IN IF Len(t) = 2 /\ t[1] \in {"L", "T"} /\ t[2] \in {ToString(k) : k \in 0..9}
       THEN [jsonrpc |-> "2.0", id |-> t[2]] @@
                (IF t[1] = "L" THEN [method |-> "tools/list"]
                 ELSE [method |-> "tools/call", params |-> [name |-> "get_sprints"]])
       ELSE SyntaxError

\* sendError('unknown', -32700, 'Parse error')
ParseErrorResponse ==
    [jsonrpc |-> "2.0", id |-> "unknown",
     error |-> [code |-> -32700, message |-> <<"Parse error">>]]

\* forgets the text held back from the chunk before
FrameSlip(held, chunk) ==
    LET lines == Split(chunk)
    IN [lines |-> SubSeq(lines, 1, Len(lines) - 1), buffer |-> lines[Len(lines)]]

\* `buffer += chunk; lines = buffer.split('\n'); buffer = lines.pop() || ''`
Frame(held, chunk) ==
    LET lines == Split(held \o chunk)
    IN [lines |-> SubSeq(lines, 1, Len(lines) - 1), buffer |-> lines[Len(lines)]]

\* the `for (const line of lines)` loop of one 'data' callback, from `lines` on
\* and with `out` written so far, up to the first line whose tool call waits
\* for its remote call: what is written by then, and the callback left waiting
\* with that request and the lines after it (none when the loop has ended).
\* A line answered without a remote call resumes the loop in a microtask,
\* before any other event is delivered.
RECURSIVE ForLines(_, _)
ForLines(lines, out) ==
    IF lines = <<>> THEN [stdout |-> out, waiting |-> <<>>]
    ELSE LET line == Head(lines)
             request == ParseRequest(line)
         IN IF IsBlank(line) THEN ForLines(Tail(lines), out)
            ELSE IF request = SyntaxError
            THEN ForLines(Tail(lines), Append(out, ParseErrorResponse))
            ELSE IF request.method # "tools/call" \/ ~NamesTool(request)
            THEN ForLines(Tail(lines), out \o SimpleAnswer(request))
            ELSE IF ThrowsAtOnce(request.params.name, Arguments(request)) # NoOutcome
            THEN ForLines(Tail(lines),
                          Append(out, Response(request, ToolCallResponse(
                              ThrowsAtOnce(request.params.name, Arguments(request))))))
            ELSE [stdout |-> out,
                  waiting |-> <<[request |-> request, lines |-> Tail(lines)]>>]

\* process.stdin.on('data'): the next chunk, of any length, arrives
Data ==
    /\ ~exited
    /\ read < Len(stream)
    /\ \E n \in 1..(Len(stream) - read) :
          LET framed == Frame(buffer, SubSeq(stream, read + 1, read + n))
              ran == ForLines(framed.lines, stdout)
          IN /\ read' = read + n
             /\ buffer' = framed.buffer
             /\ stdout' = ran.stdout
             /\ handlers' = handlers \o ran.waiting
    /\ UNCHANGED <<stream, exited, config, mcpClient, front, op, args, pc, locals, calls,
                   replies, outcome, http, rpc>>

\* how executeToolCall ends for get_sprints: the sprint list (here an empty
\* one), or getSprints' error
ToolOutcomes ==
    {Return(ToolResult("get_sprints", <<>>)),
     Throw(<<"Failed to fetch sprints from Azure DevOps">>)}

\* `await executeToolCall(...)` of one waiting callback settles: handleRequest
\* sends the response and the callback goes on with its remaining lines
ToolSettles ==
    /\ ~exited
    /\ \E h \in DOMAIN handlers, out \in ToolOutcomes :
          LET sent == Append(stdout, Response(handlers[h].request, ToolCallResponse(out)))
              ran == ForLines(handlers[h].lines, sent)
          IN /\ stdout' = ran.stdout
             /\ handlers' = SubSeq(handlers, 1, h - 1) \o ran.waiting
                                \o SubSeq(handlers, h + 1, Len(handlers))
    /\ UNCHANGED <<stream, read, buffer, exited, config, mcpClient, front, op, args, pc,
                   locals, calls, replies, outcome, http, rpc>>

\* process.stdin.on('end'): after the last chunk; process.exit(0) ends the
\* process with whatever is still waiting
End ==
    /\ ~exited
    /\ read = Len(stream)
    /\ exited' = TRUE
    /\ UNCHANGED <<stream, read, buffer, handlers, config, mcpClient, front, op, args, pc,
                   locals, calls, replies, outcome, http, rpc, stdout>>

\* the text of the line at place k of the stream: a tools/list or a tools/call
\* request with id k, a blank line, or text that is not JSON
LineText(k, kind) == IF kind = " " THEN <<" ">> ELSE <<kind, ToString(k)>>

\* the streams a client sends: up to MaxLines lines, each ended by a newline,
\* then nothing more or the beginning of a further line
Streams ==
    LET Texts(kinds) == [k \in 1..Len(kinds) |-> LineText(k, kinds[k]) \o <<"\n">>]
        RECURSIVE Concat(_)
        Concat(ts) == IF ts = <<>> THEN <<>> ELSE Head(ts) \o Concat(Tail(ts))
    IN {Concat(ArrayOf(Texts(kinds))) \o tail :
           kinds \in SeqsUpTo({"L", "T", " ", "{"}, MaxLines), tail \in {<<>>, <<"L">>}}

InitStdin ==
    /\ config = [enabled |-> FALSE]
    /\ mcpClient = initializeMCPClient(config)
    /\ front = "stdio" /\ op = "none" /\ args = EmptyObject /\ pc = "idle"
    /\ locals = EmptyObject /\ calls = <<>> /\ replies = <<>> /\ outcome = NoOutcome
    /\ rpc = NoRequest /\ http = <<>>
    /\ stdout = <<>>
    /\ stream \in Streams
    /\ read = 0 /\ buffer = <<>> /\ handlers = <<>> /\ exited = FALSE

NextStdin ==
    \/ Data
    \/ ToolSettles
    \/ End

SpecStdin == InitStdin /\ [][NextStdin]_vars

\* the complete lines among the characters delivered so far
ReadLines ==
    LET ls == Split(SubSeq(stream, 1, read))
    IN SubSeq(ls, 1, Len(ls) - 1)

\* the text delivered after the last newline
PartialLine ==
    LET ls == Split(SubSeq(stream, 1, read))
    IN ls[Len(ls)]

\* the lines of the callbacks that the loop has not reached yet
QueuedLines ==
    {q \in (DOMAIN handlers) \X (1..(MaxLines + 1)) : q[2] <= Len(handlers[q[1]].lines)}

\* how often the request of line `line` is answered, waited for or queued
TimesTaken(line) ==
    Cardinality({m \in DOMAIN stdout : stdout[m].id = ParseRequest(line).id})
        + Cardinality({h \in DOMAIN handlers : handlers[h].request = ParseRequest(line)})
        + Cardinality({q \in QueuedLines : handlers[q[1]].lines[q[2]] = line})

\* the place in the stream of the line that a response answers
PlaceOf(id) == CHOOSE k \in 0..9 : ToString(k) = id

\* C24: the responses appear on stdout in the order in which their request
\* lines were received, also when a later chunk arrives while the tool call of
\* an earlier chunk is still waiting for its remote call.
C24_ResponsesInRequestOrder ==
    \A i, j \in DOMAIN stdout :
        (i < j /\ stdout[i].id # "unknown" /\ stdout[j].id # "unknown") =>
            PlaceOf(stdout[i].id) < PlaceOf(stdout[j].id)

\* C25: the server does not exit on end of input while a tool call is in
\* flight: once it has exited, every tools/call line it read has its response
\* on stdout.
C25_ToolCallsAnsweredBeforeExit ==
    exited =>
        \A k \in DOMAIN ReadLines :
            LET request == ParseRequest(ReadLines[k])
            IN (request # SyntaxError /\ request.method = "tools/call") =>
                  \E m \in DOMAIN stdout : stdout[m].id = request.id

\* C26: framing does not depend on how the stream is cut into chunks.  After
\* any chunks, what the server has taken from the stream is a function of the
\* characters delivered alone: the text after the last newline is held back in
\* the buffer; each complete well-formed line delivered is taken exactly once
\* (answered, waited for, or queued in its callback) and no line not yet
\* complete is; each callback holds its lines in the order of the stream,
\* right after the line it waits for; blank lines are answered by nothing,
\* every other line by at most one message.
C26_FramingIndependentOfChunking ==
    LET all == Split(stream)
        NonBlank == {k \in DOMAIN ReadLines : ~IsBlank(ReadLines[k])}
        Malformed == {k \in NonBlank : ParseRequest(ReadLines[k]) = SyntaxError}
    IN /\ buffer = PartialLine
       /\ \A k \in 1..(Len(all) - 1) :
             ParseRequest(all[k]) # SyntaxError =>
                 TimesTaken(all[k]) = (IF k <= Len(ReadLines) THEN 1 ELSE 0)
       /\ Cardinality({m \in DOMAIN stdout : stdout[m].id = "unknown"})
              + Cardinality({q \in QueuedLines :
                    LET line == handlers[q[1]].lines[q[2]]
                    IN ~IsBlank(line) /\ ParseRequest(line) = SyntaxError})
            = Cardinality(Malformed)
       /\ Len(stdout) + Len(handlers)
              + Cardinality({q \in QueuedLines : ~IsBlank(handlers[q[1]].lines[q[2]])})
            = Cardinality(NonBlank)
       /\ \A h \in DOMAIN handlers :
             \E a \in DOMAIN ReadLines :
                 /\ ParseRequest(ReadLines[a]) = handlers[h].request
                 /\ a + Len(handlers[h].lines) <= Len(ReadLines)
                 /\ handlers[h].lines = SubSeq(ReadLines, a + 1, a + Len(handlers[h].lines))

\* a request line is cut in two by a chunk boundary after a blank line was
\* read, while the line of an earlier chunk waits for its tool call
C26_Witness ==
    /\ buffer \in {<<"L">>, <<"T">>}
    /\ read < Len(stream) /\ stream[read + 1] # "\n"
    /\ \E k \in DOMAIN ReadLines : IsBlank(ReadLines[k])
    /\ handlers # <<>>

=============================================================================
